---- MODULE Spec2Model ----
(***************************************************************************)
(* A model of blockchain/xdc_interact.py: the connector                    *)
(* (connect_to_xdc_testnet), the gas price advisor                         *)
(* (ai_agent_optimize_gas_price), the balance reader (get_account_balance) *)
(* and the transaction submitter (send_xdc_transaction), run against a     *)
(* nondeterministic ledger node, with the application's start (app.py)     *)
(* that connects once and stops without a handle; and of the dashboard's   *)
(* agents (agents/impact_assessor.py, akka_liquidity_agent.py,             *)
(* storx_agent.py, oracle_monitor.py) with the session state app.py keeps  *)
(* between button presses.  Each agent has its own specification           *)
(* (SpecImpact, SpecAkka, SpecStorx, SpecOracle); SpecSession is the       *)
(* session of the dashboard.                                               *)
(*                                                                         *)
(* Numbers.  Python ints and Decimals are unbounded; a quantity is held    *)
(* here as a record [c |-> coefficient, e |-> exponent] denoting           *)
(* c * 10^e, so that 250 Gwei = 250 * 10^9 wei and 100 tXDC = 100 * 10^18  *)
(* wei keep the code's real factors.  Every sum the model forms has fewer  *)
(* than 28 significant digits, the range in which Python's Decimal         *)
(* addition (default context) is exact.                                    *)
(***************************************************************************)
EXTENDS Integers, Sequences, FiniteSets, TLC

\* ------------------------------------------------------------------------
\* Bounds of the model
\* ------------------------------------------------------------------------

\* Transfers mined on the ledger before the model stops starting new calls.
MaxNonce == 2

\* Seconds of waiting for a receipt that pass in one step of the model.
TickSeconds == 10

\* The call slots: two invocations of send_xdc_transaction.
Calls == {1, 2}

\* ------------------------------------------------------------------------
\* Program constants
\* ------------------------------------------------------------------------

MIN_GAS_PRICE_GWEI == 250

\* gas_limit = 21000, the fixed cost of a plain transfer.
GAS_LIMIT == 21000

\* timeout=60 of wait_for_transaction_receipt.
RECEIPT_TIMEOUT == 60

\* Python's None, as a return value and as an unbound optional.
None == "None"

\* ------------------------------------------------------------------------
\* Numbers: c * 10^e
\* ------------------------------------------------------------------------

RECURSIVE Pow10(_)
Pow10(n) == IF n = 0 THEN 1 ELSE 10 * Pow10(n - 1)

Num(c, e) == [c |-> c, e |-> e]

Zero == Num(0, 0)

\* The canonical form: no trailing zero in the coefficient, zero is 0 * 10^0.
RECURSIVE Norm(_)
Norm(x) ==
    IF x.c = 0 THEN Zero
    ELSE IF x.c % 10 = 0 THEN Norm(Num(x.c \div 10, x.e + 1))
    ELSE x

MinExp(a, b) == IF a.e < b.e THEN a.e ELSE b.e

\* The coefficient of x at the (smaller or equal) exponent e.
CoefAt(x, e) == x.c * Pow10(x.e - e)

Sgn(x) == IF x.c > 0 THEN 1 ELSE IF x.c < 0 THEN -1 ELSE 0

Negated(x) == Num(0 - x.c, x.e)

RECURSIVE Digits(_)
Digits(n) == IF n < 10 THEN 1 ELSE 1 + Digits(n \div 10)

\* The position of the leading digit of a positive x.
Magnitude(x) == Digits(x.c) + x.e

\* a < b for positive a and b: by magnitude, then by aligned coefficients.
PosLess(a, b) ==
    IF Magnitude(a) # Magnitude(b)
        THEN Magnitude(a) < Magnitude(b)
        ELSE CoefAt(a, MinExp(a, b)) < CoefAt(b, MinExp(a, b))

\* a < b, exactly.
NumLess(a, b) ==
    IF Sgn(a) # Sgn(b) THEN Sgn(a) < Sgn(b)
    ELSE IF Sgn(a) = 0 THEN FALSE
    ELSE IF Sgn(a) = 1 THEN PosLess(a, b)
    ELSE PosLess(Negated(b), Negated(a))

NumAdd(a, b) == Norm(Num(CoefAt(a, MinExp(a, b)) + CoefAt(b, MinExp(a, b)), MinExp(a, b)))

NumTimes(k, a) == Norm(Num(k * a.c, a.e))

\* int(d): the integral part, for d >= 0.
NumInt(x) == IF x.e >= 0 THEN x ELSE Norm(Num(x.c \div Pow10(0 - x.e), 0))

\* units[unit] of eth_utils, as a power of ten.
UnitExp(unit) == CASE unit = "wei" -> 0 [] unit = "gwei" -> 9 [] unit = "ether" -> 18

\* A faulty to_wei that takes any number, a negative one too.
to_wei_never_raises(number, unit) == FALSE

\* to_wei(number, unit) raises ValueError for a negative result (MIN_WEI = 0).
to_wei_raises(number, unit) == number.c < 0

\* to_wei(number, unit) = int(number * units[unit]).
to_wei(number, unit) == NumInt(Norm(Num(number.c, number.e + UnitExp(unit))))

\* from_wei(number, unit) = number / units[unit], an exact Decimal.
from_wei(number, unit) == Norm(Num(number.c, number.e - UnitExp(unit)))

\* ------------------------------------------------------------------------
\* Addresses, keys, hashes
\* ------------------------------------------------------------------------

\* Address strings a caller may pass: lower case, checksummed, and the
\* "xdc" prefixed form that Web3.to_checksum_address rejects.
Addresses == {"0xab5801a7", "0xAb5801a7", "xdcab5801a7"}

is_address(a) == a \in {"0xab5801a7", "0xAb5801a7"}

\* Web3.to_checksum_address: the mixed-case form of a valid address.
to_checksum_address(a) == CASE a \in {"0xab5801a7", "0xAb5801a7"} -> "0xAb5801a7"

\* Private key strings: a well-formed key, a key of the wrong length, and
\* the placeholder text of the module's own test block.
PrivateKeys == {"0x4c0883a6", "0x4c08", "YOUR_XDC_TESTNET_PRIVATE_KEY_HERE"}

\* Whether sign_transaction accepts the string as a 32-byte key.
is_private_key(k) == k = "0x4c0883a6"

HexDigits == <<"0", "1", "2", "3", "4", "5", "6", "7", "8", "9", "a", "b", "c", "d", "e", "f">>

\* A faulty hex: a byte below 16 gives one digit.
RECURSIVE HexUnpadded(_)
HexUnpadded(bytes) ==
    IF bytes = <<>> THEN ""
    ELSE (IF Head(bytes) < 16 THEN "" ELSE HexDigits[(Head(bytes) \div 16) + 1])
         \o HexDigits[(Head(bytes) % 16) + 1] \o HexUnpadded(Tail(bytes))

\* HexBytes.hex(): two lower-case hex digits per byte.
RECURSIVE hex(_)
hex(bytes) ==
    IF bytes = <<>> THEN ""
    ELSE HexDigits[(Head(bytes) \div 16) + 1] \o HexDigits[(Head(bytes) % 16) + 1] \o hex(Tail(bytes))

\* Transaction hashes the node may answer with (shortened to two bytes).
Hashes == {<<171, 18>>, <<0, 255>>}

\* ------------------------------------------------------------------------
\* Exceptions and the console
\* ------------------------------------------------------------------------

\* An exception: its message, and which of the substrings tested by the
\* handler of send_xdc_transaction the lower-cased message contains.
Exc(text, has) == [text |-> text, has |-> has]

InvalidAddressError == Exc("Unknown format, attempted to normalize", {})

ConnectionError == Exc("HTTPSConnectionPool: Max retries exceeded", {})

ToWeiValueError == Exc("Resulting wei value must be between 1 and 2**256 - 1", {})

KeyLengthError == Exc("The private key must be exactly 32 bytes long", {"private key"})

NonHexKeyError == Exc("Non-hexadecimal digit found", {})

InsufficientFundsError == Exc("insufficient funds for gas * price + value", {"insufficient funds", "gas"})

NonceTooLowError == Exc("nonce too low", {"nonce too low", "nonce"})

UnderMinGasPriceError == Exc("under min gas price", {"gas"})

TimeExhausted == Exc("Transaction is not in the chain after 60 seconds", {})

\* What the node may answer to send_raw_transaction instead of a hash.
BroadcastErrors == {InsufficientFundsError, NonceTooLowError, UnderMinGasPriceError, ConnectionError}

\* sign_transaction on a string that is no private key.
SignError(key) == IF key = "0x4c08" THEN KeyLengthError ELSE NonHexKeyError

\* The if/elif chain of the handler: the "Reason" line printed, if any.
Reason(e) ==
    IF "insufficient funds" \in e.has \/ "balance" \in e.has
        THEN <<"Reason: Insufficient balance.">>
    ELSE IF "invalid signature" \in e.has \/ "private key" \in e.has
        THEN <<"Reason: Invalid private key.">>
    ELSE IF "nonce too low" \in e.has \/ "nonce" \in e.has
        THEN <<"Reason: Nonce conflict.">>
    ELSE IF "gas" \in e.has /\ "limit" \in e.has
        THEN <<"Reason: Gas limit too high or too low.">>
    ELSE <<>>

\* The lines the except clause prints.
ExceptLines(e) == <<"Error sending transaction: " \o e.text>> \o Reason(e)

\* ------------------------------------------------------------------------
\* Gas price advisor
\* ------------------------------------------------------------------------

\* None where a Decimal is expected, and an unbound local.
NoneValue == [none |-> TRUE]

\* The last price the advisor returned, with what has happened around it:
\* whether the network's price has changed since (changed), whether the
\* advisor had returned a price before with no change of the network in
\* between (repeated), and whether it had returned a different price before
\* (moved). NoneValue before the first quote.
VARIABLE lastQuote

\* min_gas_price_wei = w3_instance.to_wei(MIN_GAS_PRICE_GWEI, 'gwei')
min_gas_price_wei == to_wei(Num(MIN_GAS_PRICE_GWEI, 0), "gwei")

\* A faulty advisor: the comparison reversed, the lower of the two prices.
LowerOfTheTwoPrices(network_gas_price_wei) ==
    IF NumLess(min_gas_price_wei, network_gas_price_wei)
        THEN min_gas_price_wei
        ELSE network_gas_price_wei

\* A faulty advisor that keeps its first answer: a price once returned is
\* returned again, whatever the network suggests by then.
CachedQuote(network_gas_price_wei) ==
    IF lastQuote # NoneValue
        THEN lastQuote.price
    ELSE IF NumLess(network_gas_price_wei, min_gas_price_wei)
        THEN min_gas_price_wei
        ELSE network_gas_price_wei

\* A faulty advisor with a memory: asked again under an unchanged network, it
\* raises its last answer by one Gwei.
EscalatingQuote(network_gas_price_wei) ==
    IF lastQuote # NoneValue /\ ~lastQuote.changed
        THEN NumAdd(lastQuote.price, Num(1, 9))
    ELSE IF NumLess(network_gas_price_wei, min_gas_price_wei)
        THEN min_gas_price_wei
        ELSE network_gas_price_wei

\* The price returned for the network's suggested price.
ai_agent_optimize_gas_price(network_gas_price_wei) ==
    IF NumLess(network_gas_price_wei, min_gas_price_wei)
        THEN min_gas_price_wei
        ELSE network_gas_price_wei

\* The lines the advisor prints.
OptimizeLines(network_gas_price_wei) ==
    <<"AI Agent: Analyzing network conditions", "Network's suggested gas price">>
    \o (IF NumLess(network_gas_price_wei, min_gas_price_wei)
           THEN <<"Network suggested price too low. Using enforced minimum">>
           ELSE <<"Using network's suggested gas price">>)
    \o <<"AI Agent: Final recommended gas price">>

\* ------------------------------------------------------------------------
\* Balance reader
\* ------------------------------------------------------------------------

\* The answer of eth.get_balance when the request fails.
RpcError == [error |-> TRUE]

\* A faulty balance reader: 0 instead of None when the lookup fails.
ZeroBalanceOnError(address, answer) ==
    IF ~is_address(address) \/ answer = RpcError
        THEN Zero
        ELSE from_wei(answer, "ether")

\* get_account_balance(w3_instance, address), for the node's answer
\* `answer` to eth.get_balance: the balance in tXDC, or None.
get_account_balance(address, answer) ==
    IF ~is_address(address) \/ answer = RpcError
        THEN NoneValue
        ELSE from_wei(answer, "ether")

BalanceLines(address, answer) ==
    IF ~is_address(address) THEN <<"Error getting balance">>
    ELSE IF answer = RpcError THEN <<"Checking balance", "Error getting balance">>
    ELSE <<"Checking balance", "Balance">>

\* ------------------------------------------------------------------------
\* Inputs and the ledger node
\* ------------------------------------------------------------------------

\* amount_xdc, in tXDC: 90, 99.99475 (100 less the fee at 250 Gwei) and -10.
Amounts == {Num(9, 1), Num(9999475, -5), Num(-1, 1)}

\* Prices eth.gas_price may report, in wei: 0, 10 Gwei, 250 Gwei, 300 Gwei.
NetworkGasPrices == {Zero, Num(1, 10), Num(25, 10), Num(3, 11)}

\* Answers of eth.get_balance, in wei: 0, 50 tXDC, 100 tXDC, or a failure.
BalanceAnswers == {Zero, Num(5, 19), Num(1, 20), RpcError}

\* Chain identifiers the endpoint may report: Apothem (51) and mainnet (50).
ChainIds == {51, 50}

\* Receipt status values: 1 success, 0 failure.
ReceiptStatuses == {1, 0}

\* How the endpoint answers connect_to_xdc_testnet: it is up; is_connected()
\* is False; building the provider or is_connected() raises; or the
\* eth.chain_id request raises after is_connected() was True.
EndpointStates == {"up", "not_connected", "raises", "chain_id_raises"}

XDC_TESTNET_RPC_URL == "https://erpc.apothem.network"

\* The application has not connected yet.
Unset == [unset |-> TRUE]

\* A Web3 instance for the endpoint.
Web3(rpc_url) == [provider |-> rpc_url]

\* An exception that left the function it was raised in.
Raised == [raised |-> TRUE]

\* A faulty connect without its try block: an exception leaves it.
ConnectWithoutTry(rpc_url, state, id) ==
    CASE state = "up" -> Web3(rpc_url)
      [] state = "not_connected" -> NoneValue
      [] OTHER -> Raised

\* A faulty connect: a chain other than 51 is refused.
ConnectRefusingOtherChains(rpc_url, state, id) ==
    IF state = "up" /\ id = 51 THEN Web3(rpc_url) ELSE NoneValue

\* connect_to_xdc_testnet(rpc_url): the Web3 instance when is_connected()
\* and the chain id was read, whatever the chain id; None otherwise.
connect_to_xdc_testnet(rpc_url, state, id) ==
    IF state = "up" THEN Web3(rpc_url) ELSE NoneValue

\* The lines connect_to_xdc_testnet prints.
ConnectLines(state, id) ==
    CASE state = "up" ->
            <<"Connected to XDC Apothem Testnet", "Chain ID">>
            \o (IF id # 51 THEN <<"WARNING: Unexpected Chain ID!">> ELSE <<>>)
      [] state = "not_connected" ->
            <<"Connection failed. Web3 instance is not connected.">>
      [] state = "raises" -> <<"Error connecting to XDC network">>
      [] state = "chain_id_raises" ->
            <<"Connected to XDC Apothem Testnet", "Error connecting to XDC network">>

VARIABLES
    pc,               \* where each call of send_xdc_transaction stands
    private_key_str,  \* arguments of the call
    from_address,
    to_address,
    amount_xdc,
    from_addr,        \* locals of the call
    to_addr,
    nonce,
    gas_price,
    gas_cost_xdc,
    sender_balance,
    total_required,
    tx,
    signed_tx,
    tx_hash,
    receipt,
    waited,           \* seconds spent in wait_for_transaction_receipt
    result,           \* the value returned to the caller
    log,              \* the lines the call printed
    steps,            \* the node requests and signings the call made, in order
    netGasPrice,      \* eth.gas_price of the node
    chainNonce,       \* eth.get_transaction_count of the sender
    chain_id,         \* eth.chain_id of the node
    endpoint,         \* how the endpoint answers a connection attempt
    w3,               \* the handle the application holds (global_w3)
    connect_log,      \* the lines connect_to_xdc_testnet printed
    impact_args,      \* the arguments of ImpactAssessorAgent.assess_impact
    impact_results,   \* the dict it returned
    akka_form,                  \* the AKKA widgets' values at the last press
    optimization_results,       \* the dict the last optimize_liquidity_route returned
    akka_optimization_results,  \* st.session_state["akka_optimization_results"]
    akka_trade_rwa_amount,      \* st.session_state["akka_trade_rwa_amount"]
    akka_trade_output_asset,    \* st.session_state["akka_trade_output_asset"]
    trade_args,                 \* the arguments of the last simulate_execute_trade
    trade_execution_results,    \* the dict it returned
    storx_env,                  \* the [storx] secrets and how the storage service answers
    storx_agent,                \* the StorXAgent object
    s3_calls,                   \* the calls made to boto3 and to the storage client
    upload_result,              \* what the last upload_document did
    submitted_loans,            \* st.session_state.submitted_loans
    latest_loan_for_storx,      \* st.session_state.latest_loan_for_storx
    current_monitoring_month,   \* st.session_state.current_monitoring_month
    press,                      \* the last button pressed and the session before it
    oracle_args,                \* the arguments of the last fetch_simulated_rwa_data
    oracle_data                 \* the dict it returned

args == <<private_key_str, from_address, to_address, amount_xdc>>

locals == <<from_addr, to_addr, nonce, gas_price, gas_cost_xdc, sender_balance,
            total_required, tx, signed_tx, tx_hash, receipt, waited>>

node == <<netGasPrice, chainNonce, chain_id>>

\* The application's connection to the endpoint.
app == <<endpoint, w3, connect_log>>

\* The dashboard of app.py beyond the transfer: the arguments and results of
\* the agents it calls and its session state.
impact == <<impact_args, impact_results>>

\* The variables of the AKKA section of the dashboard.
akka ==
    <<akka_form, optimization_results, akka_optimization_results,
      akka_trade_rwa_amount, akka_trade_output_asset, trade_args, trade_execution_results>>

storx == <<storx_env, storx_agent, s3_calls, upload_result>>

session == <<submitted_loans, latest_loan_for_storx, current_monitoring_month, press>>

oracle == <<oracle_args, oracle_data>>

dashboard == <<impact, akka, storx, session, oracle>>

vars == <<pc, args, locals, result, log, steps, node, app, lastQuote, dashboard>>

\* The transfer side when the application starts: no call under way, no
\* connection made yet.
XdcInit ==
    /\ pc = [c \in Calls |-> "idle"]
    /\ private_key_str = [c \in Calls |-> None]
    /\ from_address = [c \in Calls |-> None]
    /\ to_address = [c \in Calls |-> None]
    /\ amount_xdc = [c \in Calls |-> NoneValue]
    /\ from_addr = [c \in Calls |-> None]
    /\ to_addr = [c \in Calls |-> None]
    /\ nonce = [c \in Calls |-> -1]
    /\ gas_price = [c \in Calls |-> NoneValue]
    /\ gas_cost_xdc = [c \in Calls |-> NoneValue]
    /\ sender_balance = [c \in Calls |-> NoneValue]
    /\ total_required = [c \in Calls |-> NoneValue]
    /\ tx = [c \in Calls |-> NoneValue]
    /\ signed_tx = [c \in Calls |-> NoneValue]
    /\ tx_hash = [c \in Calls |-> <<>>]
    /\ receipt = [c \in Calls |-> NoneValue]
    /\ waited = [c \in Calls |-> 0]
    /\ result = [c \in Calls |-> None]
    /\ log = [c \in Calls |-> <<>>]
    /\ steps = [c \in Calls |-> <<>>]
    /\ netGasPrice \in NetworkGasPrices
    /\ chainNonce = 0
    /\ chain_id \in ChainIds
    /\ endpoint \in EndpointStates
    /\ w3 = Unset
    /\ connect_log = <<>>
    /\ lastQuote = NoneValue

\* No agent of the dashboard has been called.
ImpactIdle ==
    /\ impact_args = NoneValue
    /\ impact_results = NoneValue

AkkaIdle ==
    /\ akka_form = NoneValue
    /\ optimization_results = NoneValue
    /\ akka_optimization_results = NoneValue
    /\ akka_trade_rwa_amount = NoneValue
    /\ akka_trade_output_asset = None
    /\ trade_args = NoneValue
    /\ trade_execution_results = NoneValue

\* No StorXAgent constructed yet.
StorxIdle ==
    /\ storx_env = NoneValue
    /\ storx_agent = NoneValue
    /\ s3_calls = <<>>
    /\ upload_result = NoneValue

\* The session_state a new session gets, no button pressed yet.
SessionIdle ==
    /\ submitted_loans = <<>>
    /\ latest_loan_for_storx = NoneValue
    /\ current_monitoring_month = 0
    /\ press = NoneValue

OracleIdle ==
    /\ oracle_args = NoneValue
    /\ oracle_data = NoneValue

DashboardIdle == ImpactIdle /\ AkkaIdle /\ StorxIdle /\ SessionIdle /\ OracleIdle

\* The state when the application starts, the dashboard untouched.
Init == XdcInit /\ DashboardIdle

\* A faulty except clause: it returns the hash when one was obtained.
ExceptReturningHash(c, e) ==
    /\ log' = [log EXCEPT ![c] = @ \o ExceptLines(e)]
    /\ result' = [result EXCEPT ![c] = IF tx_hash[c] # <<>> THEN hex(tx_hash[c]) ELSE None]
    /\ pc' = [pc EXCEPT ![c] = "done"]

\* A faulty except clause: a rejected broadcast is signed and sent again.
ExceptRetrying(c, e) ==
    /\ log' = [log EXCEPT ![c] = @ \o ExceptLines(e)]
    /\ result' = [result EXCEPT ![c] = None]
    /\ pc' = [pc EXCEPT ![c] = IF pc[c] = "send" THEN "sign" ELSE "done"]

\* A faulty except clause that catches less than Exception: a connection
\* error or a timeout leaves the call as an exception.
ExceptNotCatchingAll(c, e) ==
    IF e \in {ConnectionError, TimeExhausted}
        THEN /\ pc' = [pc EXCEPT ![c] = "raised"]
             /\ UNCHANGED <<log, result>>
        ELSE /\ log' = [log EXCEPT ![c] = @ \o ExceptLines(e)]
             /\ result' = [result EXCEPT ![c] = None]
             /\ pc' = [pc EXCEPT ![c] = "done"]

\* The except clause of send_xdc_transaction: print, return None.
Except(c, e) ==
    /\ log' = [log EXCEPT ![c] = @ \o ExceptLines(e)]
    /\ result' = [result EXCEPT ![c] = None]
    /\ pc' = [pc EXCEPT ![c] = "done"]

\* global_w3 = get_web3_instance(): the application connects once, when it
\* starts, and keeps what connect_to_xdc_testnet returned.
Connect ==
    /\ w3 = Unset
    /\ w3' = connect_to_xdc_testnet(XDC_TESTNET_RPC_URL, endpoint, chain_id)
    /\ connect_log' = ConnectLines(endpoint, chain_id)
    /\ UNCHANGED <<pc, args, locals, result, log, steps, node, endpoint, lastQuote, dashboard>>

\* A faulty start: the application goes on whatever the handle.
AppNeverStops(handle) == FALSE

\* if not global_w3: st.error(...); st.stop()
AppStops(handle) == handle = NoneValue

\* The submit handler invokes send_xdc_transaction with global_w3.
Call(c) ==
    /\ pc[c] = "idle"
    /\ w3 # Unset
    /\ ~AppStops(w3)
    /\ chainNonce < MaxNonce
    /\ \E k \in PrivateKeys, f \in Addresses, t \in Addresses, a \in Amounts :
        /\ private_key_str' = [private_key_str EXCEPT ![c] = k]
        /\ from_address' = [from_address EXCEPT ![c] = f]
        /\ to_address' = [to_address EXCEPT ![c] = t]
        /\ amount_xdc' = [amount_xdc EXCEPT ![c] = a]
    /\ pc' = [pc EXCEPT ![c] = "checksum"]
    /\ UNCHANGED <<locals, result, log, steps, node, app, lastQuote, dashboard>>

\* from_addr = Web3.to_checksum_address(from_address), and to_addr likewise.
Checksum(c) ==
    /\ pc[c] = "checksum"
    /\ IF is_address(from_address[c]) /\ is_address(to_address[c])
         THEN /\ from_addr' = [from_addr EXCEPT ![c] = to_checksum_address(from_address[c])]
              /\ to_addr' = [to_addr EXCEPT ![c] = to_checksum_address(to_address[c])]
              /\ pc' = [pc EXCEPT ![c] = "nonce"]
              /\ UNCHANGED <<result, log>>
         ELSE /\ Except(c, InvalidAddressError)
              /\ UNCHANGED <<from_addr, to_addr>>
    /\ UNCHANGED <<args, nonce, gas_price, gas_cost_xdc, sender_balance, total_required,
                   tx, signed_tx, tx_hash, receipt, waited, steps, node, app, lastQuote, dashboard>>

\* A faulty submitter with a lock per sender: the count is read only while
\* no other call stands between its own read and its broadcast.
ReadNonceLocked(c) ==
    /\ pc[c] = "nonce"
    /\ \A d \in Calls \ {c} : nonce[d] = -1 \/ pc[d] \in {"wait", "done"}
    /\ steps' = [steps EXCEPT ![c] = Append(@, "get_transaction_count")]
    /\ \/ /\ nonce' = [nonce EXCEPT ![c] = chainNonce]
          /\ pc' = [pc EXCEPT ![c] = "gas_price"]
          /\ UNCHANGED <<result, log>>
       \/ /\ Except(c, ConnectionError)
          /\ UNCHANGED nonce
    /\ UNCHANGED <<args, from_addr, to_addr, gas_price, gas_cost_xdc, sender_balance,
                   total_required, tx, signed_tx, tx_hash, receipt, waited, node, app, lastQuote, dashboard>>

\* nonce = w3_instance.eth.get_transaction_count(from_addr)
ReadNonce(c) ==
    /\ pc[c] = "nonce"
    /\ steps' = [steps EXCEPT ![c] = Append(@, "get_transaction_count")]
    /\ \/ /\ nonce' = [nonce EXCEPT ![c] = chainNonce]
          /\ pc' = [pc EXCEPT ![c] = "gas_price"]
          /\ UNCHANGED <<result, log>>
       \/ /\ Except(c, ConnectionError)
          /\ UNCHANGED nonce
    /\ UNCHANGED <<args, from_addr, to_addr, gas_price, gas_cost_xdc, sender_balance,
                   total_required, tx, signed_tx, tx_hash, receipt, waited, node, app, lastQuote, dashboard>>

\* gas_price = ai_agent_optimize_gas_price(w3_instance, "standard"), then
\* gas_cost_xdc = from_wei(gas_limit * gas_price, 'ether').
QuoteGas(c) ==
    /\ pc[c] = "gas_price"
    /\ steps' = [steps EXCEPT ![c] = Append(@, "gas_price")]
    /\ \/ /\ gas_price' = [gas_price EXCEPT ![c] = ai_agent_optimize_gas_price(netGasPrice)]
          /\ gas_cost_xdc' = [gas_cost_xdc EXCEPT ![c] =
                 from_wei(NumTimes(GAS_LIMIT, ai_agent_optimize_gas_price(netGasPrice)), "ether")]
          /\ log' = [log EXCEPT ![c] = @ \o OptimizeLines(netGasPrice)
                                         \o <<"Using Gas Price", "Estimated Gas Cost">>]
          /\ lastQuote' =
                 [price |-> ai_agent_optimize_gas_price(netGasPrice),
                  changed |-> FALSE,
                  repeated |-> lastQuote # NoneValue /\ ~lastQuote.changed,
                  moved |-> /\ lastQuote # NoneValue
                            /\ lastQuote.price # ai_agent_optimize_gas_price(netGasPrice)]
          /\ pc' = [pc EXCEPT ![c] = "balance"]
          /\ UNCHANGED result
       \/ /\ Except(c, ConnectionError)
          /\ UNCHANGED <<gas_price, gas_cost_xdc, lastQuote>>
    /\ UNCHANGED <<args, from_addr, to_addr, nonce, sender_balance, total_required,
                   tx, signed_tx, tx_hash, receipt, waited, node, app, dashboard>>

\* sender_balance = get_account_balance(w3_instance, from_address); a None
\* balance aborts the call.
ReadBalance(c) ==
    /\ pc[c] = "balance"
    /\ steps' = [steps EXCEPT ![c] = Append(@, "get_balance")]
    /\ \E answer \in BalanceAnswers :
        /\ sender_balance' = [sender_balance EXCEPT ![c] = get_account_balance(from_address[c], answer)]
        /\ IF get_account_balance(from_address[c], answer) = NoneValue
             THEN /\ log' = [log EXCEPT ![c] = @ \o BalanceLines(from_address[c], answer)
                                 \o <<"Could not retrieve sender's balance. Transaction aborted.">>]
                  /\ result' = [result EXCEPT ![c] = None]
                  /\ pc' = [pc EXCEPT ![c] = "done"]
             ELSE /\ log' = [log EXCEPT ![c] = @ \o BalanceLines(from_address[c], answer)]
                  /\ pc' = [pc EXCEPT ![c] = "preflight"]
                  /\ UNCHANGED result
    /\ UNCHANGED <<args, from_addr, to_addr, nonce, gas_price, gas_cost_xdc, total_required,
                   tx, signed_tx, tx_hash, receipt, waited, node, app, lastQuote, dashboard>>

\* A faulty preflight: the fee left out of the comparison.
InsufficientFundsWithoutFee(balance, amount, gas_cost) == NumLess(balance, amount)

\* A faulty comparison: a balance equal to the requirement is refused.
InsufficientFundsOrEqual(balance, amount, gas_cost) ==
    ~NumLess(NumAdd(amount, gas_cost), balance)

\* if sender_balance < amount_xdc_decimal + gas_cost_xdc
InsufficientFunds(balance, amount, gas_cost) == NumLess(balance, NumAdd(amount, gas_cost))

\* A faulty submitter: the comparison of the balance is left out.
PreflightSkipped(c) ==
    /\ pc[c] = "preflight"
    /\ total_required' = [total_required EXCEPT ![c] = NumAdd(amount_xdc[c], gas_cost_xdc[c])]
    /\ pc' = [pc EXCEPT ![c] = "build"]
    /\ UNCHANGED <<args, from_addr, to_addr, nonce, gas_price, gas_cost_xdc, sender_balance,
                   tx, signed_tx, tx_hash, receipt, waited, result, log, steps, node, app, lastQuote, dashboard>>

\* total_required = Decimal(str(amount_xdc)) + gas_cost_xdc; a balance below
\* it aborts the call.
Preflight(c) ==
    /\ pc[c] = "preflight"
    /\ steps' = [steps EXCEPT ![c] = Append(@, "compare")]
    /\ total_required' = [total_required EXCEPT ![c] = NumAdd(amount_xdc[c], gas_cost_xdc[c])]
    /\ IF InsufficientFunds(sender_balance[c], amount_xdc[c], gas_cost_xdc[c])
         THEN /\ log' = [log EXCEPT ![c] = @ \o <<"Insufficient funds!", "Please fund your account. Transaction aborted.">>]
              /\ result' = [result EXCEPT ![c] = None]
              /\ pc' = [pc EXCEPT ![c] = "done"]
         ELSE /\ pc' = [pc EXCEPT ![c] = "build"]
              /\ UNCHANGED <<result, log>>
    /\ UNCHANGED <<args, from_addr, to_addr, nonce, gas_price, gas_cost_xdc, sender_balance,
                   tx, signed_tx, tx_hash, receipt, waited, node, app, lastQuote, dashboard>>

\* A faulty payload: the network's suggested price, read again, instead of
\* the price quoted for the call.
TransactionWithNetworkPrice(c) ==
    [nonce |-> nonce[c],
     to |-> to_addr[c],
     value |-> to_wei(amount_xdc[c], "ether"),
     gas |-> GAS_LIMIT,
     gasPrice |-> netGasPrice,
     chainId |-> chain_id]

\* {'nonce': nonce, 'to': to_addr, 'value': to_wei(amount_xdc_decimal, 'ether'),
\*  'gas': gas_limit, 'gasPrice': gas_price, 'chainId': w3_instance.eth.chain_id}
Transaction(c) ==
    [nonce |-> nonce[c],
     to |-> to_addr[c],
     value |-> to_wei(amount_xdc[c], "ether"),
     gas |-> GAS_LIMIT,
     gasPrice |-> gas_price[c],
     chainId |-> chain_id]

\* tx = {...}: the amount is converted, the chain id is read, the payload is
\* built.
BuildTx(c) ==
    /\ pc[c] = "build"
    /\ IF to_wei_raises(amount_xdc[c], "ether")
         THEN /\ Except(c, ToWeiValueError)
              /\ UNCHANGED <<tx, steps>>
         ELSE /\ steps' = [steps EXCEPT ![c] = Append(@, "chain_id")]
              /\ \/ /\ tx' = [tx EXCEPT ![c] = Transaction(c)]
                    /\ log' = [log EXCEPT ![c] = Append(@, "Preparing to send")]
                    /\ pc' = [pc EXCEPT ![c] = "sign"]
                    /\ UNCHANGED result
                 \/ /\ Except(c, ConnectionError)
                    /\ UNCHANGED tx
    /\ UNCHANGED <<args, from_addr, to_addr, nonce, gas_price, gas_cost_xdc, sender_balance,
                   total_required, signed_tx, tx_hash, receipt, waited, node, app, lastQuote, dashboard>>

\* signed_tx = w3_instance.eth.account.sign_transaction(tx, private_key_str)
Sign(c) ==
    /\ pc[c] = "sign"
    /\ steps' = [steps EXCEPT ![c] = Append(@, "sign_transaction")]
    /\ IF is_private_key(private_key_str[c])
         THEN /\ signed_tx' = [signed_tx EXCEPT ![c] = [tx |-> tx[c], key |-> private_key_str[c]]]
              /\ pc' = [pc EXCEPT ![c] = "send"]
              /\ UNCHANGED <<result, log>>
         ELSE /\ Except(c, SignError(private_key_str[c]))
              /\ UNCHANGED signed_tx
    /\ UNCHANGED <<args, from_addr, to_addr, nonce, gas_price, gas_cost_xdc, sender_balance,
                   total_required, tx, tx_hash, receipt, waited, node, app, lastQuote, dashboard>>

\* tx_hash = w3_instance.eth.send_raw_transaction(signed_tx.raw_transaction):
\* the node answers with a hash or with an error.
Broadcast(c) ==
    /\ pc[c] = "send"
    /\ steps' = [steps EXCEPT ![c] = Append(@, "send_raw_transaction")]
    /\ \/ \E h \in Hashes :
            /\ tx_hash' = [tx_hash EXCEPT ![c] = h]
            /\ log' = [log EXCEPT ![c] = @ \o <<"Transaction sent! Hash: " \o hex(h),
                                                "Waiting for transaction receipt...">>]
            /\ pc' = [pc EXCEPT ![c] = "wait"]
            /\ UNCHANGED result
       \/ \E e \in BroadcastErrors :
            /\ Except(c, e)
            /\ UNCHANGED tx_hash
    /\ UNCHANGED <<args, from_addr, to_addr, nonce, gas_price, gas_cost_xdc, sender_balance,
                   total_required, tx, signed_tx, receipt, waited, node, app, lastQuote, dashboard>>

\* wait_for_transaction_receipt(tx_hash, timeout=60): TickSeconds pass
\* without a receipt, up to the timeout.
WaitTick(c) ==
    /\ pc[c] = "wait"
    /\ waited[c] < RECEIPT_TIMEOUT
    /\ waited' = [waited EXCEPT ![c] =
                      IF @ + TickSeconds < RECEIPT_TIMEOUT THEN @ + TickSeconds
                                                          ELSE RECEIPT_TIMEOUT]
    /\ UNCHANGED <<pc, args, from_addr, to_addr, nonce, gas_price, gas_cost_xdc, sender_balance,
                   total_required, tx, signed_tx, tx_hash, receipt, result, log, steps, node, app, lastQuote, dashboard>>

\* A faulty return: the hash whatever the receipt's status.
ReceiptResultAlwaysHash(status, hash) == hex(hash)

\* if receipt.status == 1: return tx_hash.hex()   else: return None
ReceiptResult(status, hash) == IF status = 1 THEN hex(hash) ELSE None

\* Faulty receipt lines: the confirmation whatever the status.
ReceiptLinesAlwaysConfirmed(status) == <<"Transaction Confirmed in Block", "Gas Used">>

\* The lines printed for a receipt.
ReceiptLines(status) ==
    IF status = 1
        THEN <<"Transaction Confirmed in Block", "Gas Used">>
        ELSE <<"Transaction Failed. Receipt">>

\* The transfer is mined and its receipt arrives before the timeout; the
\* call returns the hash for status 1 and None otherwise.
Receipt(c) ==
    /\ pc[c] = "wait"
    /\ waited[c] < RECEIPT_TIMEOUT
    /\ steps' = [steps EXCEPT ![c] = Append(@, "wait_for_transaction_receipt")]
    /\ chainNonce' = chainNonce + 1
    /\ \E status \in ReceiptStatuses :
        /\ receipt' = [receipt EXCEPT ![c] = [status |-> status, transactionHash |-> tx_hash[c]]]
        /\ log' = [log EXCEPT ![c] = @ \o ReceiptLines(status)]
        /\ result' = [result EXCEPT ![c] = ReceiptResult(status, tx_hash[c])]
    /\ pc' = [pc EXCEPT ![c] = "done"]
    /\ UNCHANGED <<args, from_addr, to_addr, nonce, gas_price, gas_cost_xdc, sender_balance,
                   total_required, tx, signed_tx, tx_hash, waited, netGasPrice, chain_id,
                   app, lastQuote, dashboard>>

\* No receipt within the timeout: wait_for_transaction_receipt raises
\* TimeExhausted.
ReceiptTimeout(c) ==
    /\ pc[c] = "wait"
    /\ waited[c] = RECEIPT_TIMEOUT
    /\ steps' = [steps EXCEPT ![c] = Append(@, "wait_for_transaction_receipt")]
    /\ Except(c, TimeExhausted)
    /\ UNCHANGED <<args, locals, node, app, lastQuote, dashboard>>

\* The caller has taken the returned value; the frame of the call is gone.
Return(c) ==
    /\ pc[c] = "done"
    /\ pc' = [pc EXCEPT ![c] = "idle"]
    /\ private_key_str' = [private_key_str EXCEPT ![c] = None]
    /\ from_address' = [from_address EXCEPT ![c] = None]
    /\ to_address' = [to_address EXCEPT ![c] = None]
    /\ amount_xdc' = [amount_xdc EXCEPT ![c] = NoneValue]
    /\ from_addr' = [from_addr EXCEPT ![c] = None]
    /\ to_addr' = [to_addr EXCEPT ![c] = None]
    /\ nonce' = [nonce EXCEPT ![c] = -1]
    /\ gas_price' = [gas_price EXCEPT ![c] = NoneValue]
    /\ gas_cost_xdc' = [gas_cost_xdc EXCEPT ![c] = NoneValue]
    /\ sender_balance' = [sender_balance EXCEPT ![c] = NoneValue]
    /\ total_required' = [total_required EXCEPT ![c] = NoneValue]
    /\ tx' = [tx EXCEPT ![c] = NoneValue]
    /\ signed_tx' = [signed_tx EXCEPT ![c] = NoneValue]
    /\ tx_hash' = [tx_hash EXCEPT ![c] = <<>>]
    /\ receipt' = [receipt EXCEPT ![c] = NoneValue]
    /\ waited' = [waited EXCEPT ![c] = 0]
    /\ result' = [result EXCEPT ![c] = None]
    /\ log' = [log EXCEPT ![c] = <<>>]
    /\ steps' = [steps EXCEPT ![c] = <<>>]
    /\ UNCHANGED <<node, app, lastQuote, dashboard>>

\* The network's suggested gas price changes.
NetworkChange ==
    /\ \E p \in NetworkGasPrices \ {netGasPrice} : netGasPrice' = p
    /\ lastQuote' = IF lastQuote = NoneValue THEN lastQuote
                                             ELSE [lastQuote EXCEPT !.changed = TRUE]
    /\ UNCHANGED <<pc, args, locals, result, log, steps, chainNonce, chain_id, app,
                   dashboard>>

\* The application is synchronous: a call runs while no other call does.
Sequential(c) == \A d \in Calls \ {c} : pc[d] = "idle"

Next ==
    \/ Connect
    \/ \E c \in Calls : Sequential(c) /\ Call(c)
    \/ \E c \in Calls : Checksum(c)
    \/ \E c \in Calls : ReadNonce(c)
    \/ \E c \in Calls : QuoteGas(c)
    \/ \E c \in Calls : ReadBalance(c)
    \/ \E c \in Calls : Preflight(c)
    \/ \E c \in Calls : BuildTx(c)
    \/ \E c \in Calls : Sign(c)
    \/ \E c \in Calls : Broadcast(c)
    \/ \E c \in Calls : WaitTick(c)
    \/ \E c \in Calls : Receipt(c)
    \/ \E c \in Calls : ReceiptTimeout(c)
    \/ \E c \in Calls : Return(c)
    \/ NetworkChange

Spec == Init /\ [][Next]_vars

\* Callers in concurrent contexts: a call for 90 tXDC with the application's
\* one key, sender and recipient, made whatever the other call is doing.
ConcurrentCall(c) ==
    /\ Call(c)
    /\ private_key_str'[c] = "0x4c0883a6"
    /\ from_address'[c] = "0xab5801a7"
    /\ to_address'[c] = "0xAb5801a7"
    /\ amount_xdc'[c] = Num(9, 1)

\* Calls of one sender interleaved step by step, each followed up to its
\* broadcast (what the node then does with the payloads is not followed).
NextConcurrent ==
    \/ Connect
    \/ \E c \in Calls : ConcurrentCall(c)
    \/ \E c \in Calls : Checksum(c)
    \/ \E c \in Calls : ReadNonce(c)
    \/ \E c \in Calls : QuoteGas(c)
    \/ \E c \in Calls : ReadBalance(c)
    \/ \E c \in Calls : Preflight(c)
    \/ \E c \in Calls : BuildTx(c)
    \/ \E c \in Calls : Sign(c)
    \/ \E c \in Calls : Broadcast(c)
    \/ \E c \in Calls : Return(c)
    \/ NetworkChange

SpecConcurrent == Init /\ [][NextConcurrent]_vars

\* ------------------------------------------------------------------------
\* Properties
\* ------------------------------------------------------------------------

Count(seq, x) == Cardinality({i \in DOMAIN seq : seq[i] = x})

Has(seq, x) == \E i \in DOMAIN seq : seq[i] = x

\* Calls of sign_transaction and of send_raw_transaction made by call c.
SignCount(c) == Count(steps[c], "sign_transaction")

BroadcastCount(c) == Count(steps[c], "send_raw_transaction")

\* amount + gasLimit * gasPrice of call c, in tXDC.
Required(c) == NumAdd(amount_xdc[c], from_wei(NumTimes(GAS_LIMIT, gas_price[c]), "ether"))

\* The balance read by call c is below amount + gasLimit * gasPrice.
Short(c) == sender_balance[c] # NoneValue /\ NumLess(sender_balance[c], Required(c))

\* The line printed at broadcast for the hash of call c.
SentLine(c) == "Transaction sent! Hash: " \o hex(tx_hash[c])

\* C1: a call whose sender balance is below amount + gasLimit*gasPrice ends
\* with the insufficient-funds failure (None, with the "Insufficient funds!"
\* line) and makes no signing and no broadcast.
C1_InsufficientFundsAborts ==
    \A c \in Calls :
        Short(c) =>
            /\ SignCount(c) = 0
            /\ BroadcastCount(c) = 0
            /\ pc[c] \in {"preflight", "done"}
            /\ pc[c] = "done" =>
                /\ result[c] = None
                /\ Has(log[c], "Insufficient funds!")

\* Balance 50.0, amount 90.0: the preflight has failed.
C1_Witness ==
    \E c \in Calls :
        /\ pc[c] = "done"
        /\ sender_balance[c] = Num(5, 1)
        /\ amount_xdc[c] = Num(9, 1)
        /\ Short(c)
        /\ Has(log[c], "Insufficient funds!")

\* The call signed its payload.
Signed(c) == signed_tx[c] # NoneValue

\* A receipt with success status arrived.
Confirmed(c) == receipt[c] # NoneValue /\ receipt[c].status = 1

\* C2, as claimed: once the balance sufficed and signing succeeded, exactly
\* one broadcast occurs and the call returns the identifier captured after
\* it, whatever the receipt outcome.
C2_ReturnsIdentifierWhateverOutcome ==
    \A c \in Calls :
        (pc[c] = "done" /\ Signed(c)) =>
            /\ BroadcastCount(c) = 1
            /\ tx_hash[c] # <<>> => result[c] = hex(tx_hash[c])

\* C2, amended: once the balance sufficed and signing succeeded, exactly one
\* broadcast is made; the call returns the identifier captured after it only
\* when the receipt has success status, and None otherwise, the identifier
\* then being printed only.
C2_OneBroadcastHashOnlyIfConfirmed ==
    \A c \in Calls :
        Signed(c) =>
            /\ BroadcastCount(c) <= 1
            /\ pc[c] \in {"wait", "done"} => BroadcastCount(c) = 1
            /\ tx_hash[c] # <<>> => Has(log[c], SentLine(c))
            /\ pc[c] = "done" =>
                result[c] = (IF Confirmed(c) THEN hex(tx_hash[c]) ELSE None)

\* A signed and broadcast transfer whose receipt has failure status: the
\* call has returned None.
C2_Witness ==
    \E c \in Calls :
        /\ pc[c] = "done"
        /\ Signed(c)
        /\ BroadcastCount(c) = 1
        /\ tx_hash[c] # <<>>
        /\ receipt[c] # NoneValue
        /\ receipt[c].status = 0
        /\ result[c] = None

\* The call broadcast and its wait ended without a receipt.
TimedOut(c) == pc[c] = "done" /\ tx_hash[c] # <<>> /\ receipt[c] = NoneValue

\* C3, as claimed: after a timeout the returned payload holds the identifier
\* obtained at broadcast.
C3_TimeoutReturnsIdentifier ==
    \A c \in Calls : TimedOut(c) => result[c] = hex(tx_hash[c])

\* C3, amended: when no receipt arrives within the 60 units the call returns
\* None; the identifier is in the printed lines only, followed by the error
\* line of the timeout, and the transfer was broadcast once.
C3_TimeoutReturnsNoneHashPrinted ==
    \A c \in Calls :
        TimedOut(c) =>
            /\ waited[c] = RECEIPT_TIMEOUT
            /\ result[c] = None
            /\ Has(log[c], SentLine(c))
            /\ log[c][Len(log[c])] = "Error sending transaction: " \o TimeExhausted.text
            /\ BroadcastCount(c) = 1

\* The wait of a broadcast transfer has run for the 60 units.
C3_Witness ==
    \E c \in Calls : TimedOut(c) /\ waited[c] = RECEIPT_TIMEOUT /\ tx_hash[c] = <<171, 18>>

\* A price of a whole number of Gwei, in Gwei.
Gwei(x) == IF x.c = 0 THEN 0 ELSE x.c * Pow10(x.e - 9)

MaxOf(a, b) == IF a >= b THEN a ELSE b

\* C4: the quoted price is max(n, f) for the network's suggested price n and
\* the floor f of MIN_GAS_PRICE_GWEI; it is n itself when n >= f.
C4_QuoteIsMax ==
    [][\A c \in Calls :
          (pc[c] = "gas_price" /\ pc'[c] = "balance") =>
              /\ Gwei(gas_price'[c]) = MaxOf(Gwei(netGasPrice), MIN_GAS_PRICE_GWEI)
              /\ Gwei(netGasPrice) >= MIN_GAS_PRICE_GWEI => gas_price'[c] = netGasPrice]_vars

\* Floor 250 Gwei, suggested 10 Gwei: the quote is 250 Gwei.
C4_Witness ==
    \E c \in Calls :
        /\ pc[c] = "balance"
        /\ netGasPrice = Num(1, 10)
        /\ gas_price[c] = Num(25, 10)

\* A receipt with failure status arrived.
Rejected(c) == receipt[c] # NoneValue /\ receipt[c].status = 0

LastLine(c) == log[c][Len(log[c])]

\* C5, as claimed: for a receipt with failure status the call returns a
\* failure the caller can tell apart from a local failure, whose returned
\* value is None.
C5_RejectionDistinctFromLocalFailure ==
    \A c \in Calls : (pc[c] = "done" /\ Rejected(c)) => result[c] # None

\* C5, amended: for a receipt with failure status the call returns None, the
\* value of every local failure; the rejection shows only in the printed line
\* "Transaction Failed", which is printed for a rejected broadcast transfer
\* and for nothing else.
C5_RejectionReturnsNoneLinePrinted ==
    \A c \in Calls :
        /\ Rejected(c) =>
            /\ pc[c] = "done"
            /\ result[c] = None
            /\ LastLine(c) = "Transaction Failed. Receipt"
        /\ Has(log[c], "Transaction Failed. Receipt") =>
            /\ Rejected(c)
            /\ BroadcastCount(c) = 1

\* A rejected transfer: None returned after the "Transaction Failed" line.
C5_Witness ==
    \E c \in Calls :
        /\ Rejected(c)
        /\ result[c] = None
        /\ LastLine(c) = "Transaction Failed. Receipt"
        /\ sender_balance[c] = Num(1, 2)

\* The exceptions the model raises, and the lines of the except clause.
AllErrors ==
    BroadcastErrors \cup {InvalidAddressError, ToWeiValueError, KeyLengthError, NonHexKeyError, TimeExhausted}

IsErrorLine(line) == \E e \in AllErrors : line = "Error sending transaction: " \o e.text

\* C6: when the balance lookup fails, get_account_balance returns None with
\* no exception reaching the except clause of the call, and the call aborts
\* returning None, with no signing and no broadcast.
C6_BalanceLookupFailureAborts ==
    \A c \in Calls :
        Has(log[c], "Error getting balance") =>
            /\ pc[c] = "done"
            /\ sender_balance[c] = NoneValue
            /\ result[c] = None
            /\ LastLine(c) = "Could not retrieve sender's balance. Transaction aborted."
            /\ \A i \in DOMAIN log[c] : ~IsErrorLine(log[c][i])
            /\ SignCount(c) = 0
            /\ BroadcastCount(c) = 0

\* A call that ended at the failed balance lookup.
C6_Witness ==
    \E c \in Calls :
        /\ pc[c] = "done"
        /\ Has(log[c], "Error getting balance")
        /\ steps[c][Len(steps[c])] = "get_balance"

\* The call was given a string that is no private key and has tried to sign.
SigningFailed(c) ==
    /\ private_key_str[c] \in {"0x4c08", "YOUR_XDC_TESTNET_PRIVATE_KEY_HERE"}
    /\ SignCount(c) > 0

\* C7: a failed signing aborts the call with the invalid-credentials failure
\* (None, with the "Invalid private key" reason of the except clause) and no
\* broadcast.  The except clause misses the reason for a key that is no hex
\* string, whose error message holds none of the substrings it tests.
C7_SigningFailureIsInvalidCredentials ==
    \A c \in Calls :
        SigningFailed(c) =>
            /\ pc[c] = "done"
            /\ result[c] = None
            /\ BroadcastCount(c) = 0
            /\ Has(log[c], "Reason: Invalid private key.")

\* What does hold of a failed signing: the call returns None and makes no
\* broadcast; the "Invalid private key" reason is printed for a key of the
\* wrong length and not for a key that is no hex string.
SigningFailureReturnsNone ==
    \A c \in Calls :
        SigningFailed(c) =>
            /\ pc[c] = "done"
            /\ result[c] = None
            /\ BroadcastCount(c) = 0
            /\ SignCount(c) = 1
            /\ IsErrorLine(log[c][Len(log[c]) - (IF private_key_str[c] = "0x4c08" THEN 1 ELSE 0)])
            /\ Has(log[c], "Reason: Invalid private key.") <=> private_key_str[c] = "0x4c08"

\* The hex strings of the hashes of the model.
ExpectedHex(h) == CASE h = <<171, 18>> -> "ab12" [] h = <<0, 255>> -> "00ff"

\* C8: for a receipt with success status within the timeout the call returns
\* the hex string of the hash it obtained at broadcast, and it returns a
\* value other than None in that case only.
C8_HashReturnedIffConfirmed ==
    \A c \in Calls :
        /\ (pc[c] = "done" /\ Confirmed(c)) =>
            /\ tx_hash[c] \in Hashes
            /\ receipt[c].transactionHash = tx_hash[c]
            /\ result[c] = ExpectedHex(tx_hash[c])
            /\ Has(log[c], "Transaction sent! Hash: " \o ExpectedHex(tx_hash[c]))
            /\ waited[c] < RECEIPT_TIMEOUT
            /\ BroadcastCount(c) = 1
        /\ result[c] # None => (pc[c] = "done" /\ Confirmed(c))

\* A confirmed transfer with hash 00ff: the call returned "00ff".
C8_Witness ==
    \E c \in Calls :
        /\ pc[c] = "done"
        /\ Confirmed(c)
        /\ tx_hash[c] = <<0, 255>>
        /\ result[c] = "00ff"

\* The node requests, the comparison and the signing of a call, in the
\* order of the code.
Order ==
    <<"get_transaction_count", "gas_price", "get_balance", "compare", "chain_id",
      "sign_transaction", "send_raw_transaction", "wait_for_transaction_receipt">>

IsPrefix(s, t) == Len(s) <= Len(t) /\ \A i \in 1..Len(s) : s[i] = t[i]

\* The state of the submitter, from the position of the call.
TxState(c) ==
    CASE pc[c] = "idle" -> "NONE"
      [] pc[c] \in {"checksum", "nonce", "gas_price", "balance", "preflight", "build", "sign"} -> "PREPARED"
      [] pc[c] = "send" -> "SIGNED"
      [] pc[c] = "wait" -> "SUBMITTED"
      [] pc[c] = "done" /\ Confirmed(c) -> "CONFIRMED"
      [] pc[c] = "done" /\ Rejected(c) -> "FAILED"
      [] pc[c] = "done" /\ TimedOut(c) -> "TIMED_OUT"
      [] OTHER -> "ABORTED"

TxStateNext(c) == TxState(c)'

Rank(state) ==
    CASE state = "PREPARED" -> 1
      [] state = "SIGNED" -> 2
      [] state = "SUBMITTED" -> 3
      [] state \in {"CONFIRMED", "FAILED", "TIMED_OUT", "ABORTED"} -> 4

\* What a state says of the steps made so far.
StepsFit(c) ==
    /\ IsPrefix(steps[c], Order)
    /\ TxState(c) = "SIGNED" => steps[c] = SubSeq(Order, 1, 6)
    /\ TxState(c) = "SUBMITTED" => steps[c] = SubSeq(Order, 1, 7)
    /\ TxState(c) \in {"CONFIRMED", "FAILED", "TIMED_OUT"} => steps[c] = Order

\* A step of the call never goes back, and ends the call once.
Forward(c) ==
    (TxState(c) # "NONE" /\ TxStateNext(c) # "NONE") =>
        /\ Rank(TxStateNext(c)) >= Rank(TxState(c))
        /\ Rank(TxState(c)) = 4 => TxStateNext(c) = TxState(c)
        /\ (TxStateNext(c) = "SIGNED" /\ TxState(c) # "SIGNED") => TxState(c) = "PREPARED"
        /\ (TxStateNext(c) = "SUBMITTED" /\ TxState(c) # "SUBMITTED") => TxState(c) = "SIGNED"
        /\ (TxStateNext(c) \in {"CONFIRMED", "FAILED", "TIMED_OUT"} /\ Rank(TxState(c)) # 4)
               => TxState(c) = "SUBMITTED"

\* C9: within a call the steps occur only in the order read gas price, read
\* balance, compare, sign, submit, poll; the call moves through PREPARED,
\* SIGNED, SUBMITTED and ends in one of CONFIRMED, FAILED, TIMED_OUT or an
\* earlier abort, never going back.
C9_StepsInOrder ==
    /\ [](\A c \in Calls : StepsFit(c))
    /\ [][\A c \in Calls : Forward(c)]_vars

\* A call that made every step and was confirmed.
C9_Witness ==
    \E c \in Calls : TxState(c) = "CONFIRMED" /\ steps[c] = Order

\* The lines printed when a call fails.
IsFailureLine(line) ==
    \/ IsErrorLine(line)
    \/ line \in {"Insufficient funds!",
                 "Could not retrieve sender's balance. Transaction aborted.",
                 "Transaction Failed. Receipt"}

\* C10: nothing is retried: a call signs at most once and broadcasts at most
\* once, and after a failure of any kind it has ended, returning None.
C10_NoRetry ==
    \A c \in Calls :
        /\ SignCount(c) <= 1
        /\ BroadcastCount(c) <= 1
        /\ Count(steps[c], "wait_for_transaction_receipt") <= 1
        /\ (\E i \in DOMAIN log[c] : IsFailureLine(log[c][i])) =>
            /\ pc[c] = "done"
            /\ result[c] = None
            /\ Cardinality({i \in DOMAIN log[c] : IsFailureLine(log[c][i])}) = 1

\* A broadcast the node rejected: the call ended after its one attempt.
C10_Witness ==
    \E c \in Calls :
        /\ pc[c] = "done"
        /\ BroadcastCount(c) = 1
        /\ tx_hash[c] = <<>>
        /\ result[c] = None
        /\ Has(log[c], "Reason: Nonce conflict.")

\* Where a call of send_xdc_transaction may stand: at one of its steps, or
\* returned ("done"); a call left by an exception would stand nowhere here.
Positions ==
    {"idle", "checksum", "nonce", "gas_price", "balance", "preflight", "build",
     "sign", "send", "wait", "done"}

\* The except clause of call c has run.
Caught(c) == \E i \in DOMAIN log[c] : IsErrorLine(log[c][i])

\* C11: whichever step of a call fails (address normalization, nonce read,
\* gas-price read, balance read, amount conversion, signing, broadcast,
\* receipt wait), the call ends by returning the failure value None: no
\* exception leaves send_xdc_transaction.
C11_NoExceptionPropagates ==
    \A c \in Calls :
        /\ pc[c] \in Positions
        /\ (Caught(c) \/ Has(log[c], "Error getting balance")) =>
              pc[c] = "done" /\ result[c] = None
        /\ (pc[c] = "done" /\ ~Confirmed(c)) =>
              result[c] = None /\ \E i \in DOMAIN log[c] : IsFailureLine(log[c][i])

\* The nonce read raised a connection error: the call returned None after
\* that one request.
C11_Witness ==
    \E c \in Calls :
        /\ pc[c] = "done"
        /\ steps[c] = <<"get_transaction_count">>
        /\ LastLine(c) = "Error sending transaction: " \o ConnectionError.text
        /\ result[c] = None

\* The fee the preflight of call c counted, in wei: total_required less the
\* amount, times 10^18.
PreflightFeeWei(c) ==
    to_wei(NumAdd(total_required[c], Negated(amount_xdc[c])), "ether")

\* C12: the payload a call signs and broadcasts carries the nonce the call
\* read at its start (the sender's count on the ledger, calls being
\* sequential), the gas limit 21000, the gas price quoted in this call, which
\* is the price its preflight counted, the checksummed recipient and the
\* amount in the smallest unit (amount * 10^18).
C12_PayloadCarriesWhatTheCallRead ==
    \A c \in Calls :
        tx[c] # NoneValue =>
            /\ tx[c].nonce = nonce[c]
            /\ pc[c] \in {"sign", "send", "wait"} => tx[c].nonce = chainNonce
            /\ tx[c].gas = 21000
            /\ tx[c].gasPrice = gas_price[c]
            /\ tx[c].gasPrice = lastQuote.price
            /\ NumTimes(21000, tx[c].gasPrice) = PreflightFeeWei(c)
            /\ tx[c].to = "0xAb5801a7"
            /\ tx[c].value = Norm([c |-> amount_xdc[c].c, e |-> amount_xdc[c].e + 18])
            /\ Signed(c) => signed_tx[c].tx = tx[c]
            /\ BroadcastCount(c) = 1 => Signed(c)

\* A call quoted 300 Gwei while the network has since moved to another
\* price; it broadcast its payload for 90 tXDC to the lower-case recipient.
C12_Witness ==
    \E c \in Calls :
        /\ BroadcastCount(c) = 1
        /\ tx_hash[c] # <<>>
        /\ to_address[c] = "0xab5801a7"
        /\ amount_xdc[c] = Num(9, 1)
        /\ signed_tx[c].tx.gasPrice = Num(3, 11)
        /\ netGasPrice # Num(3, 11)
        /\ signed_tx[c].tx.value = Num(9, 19)

\* Amounts of tXDC in units of 10^-5 tXDC, as integers.
InUnits(x) == CoefAt(x, -5)

\* 21000 * gas price in units of 10^-5 tXDC, for a price in whole Gwei
\* (1 Gwei = 10^-9 tXDC, so 10^4 Gwei make one unit).
FeeInUnits(c) == (21000 * Gwei(gas_price[c])) \div 10000

\* The balance read by call c covers amount + 21000 * gas price.
Covered(c) == InUnits(sender_balance[c]) >= InUnits(amount_xdc[c]) + FeeInUnits(c)

\* C13: the preflight of a call passes exactly when the balance read is at
\* least amount + 21000 * gas price; a balance equal to that sum passes, and
\* so does balance 100.0 for amount 90.0 at 250 Gwei.
C13_PreflightPassesIffCovered ==
    \A c \in Calls :
        Has(steps[c], "compare") =>
            /\ Has(log[c], "Insufficient funds!") <=> ~Covered(c)
            /\ Covered(c) => (pc[c] # "done" \/ Has(steps[c], "chain_id")
                                             \/ Caught(c))
            /\ (/\ sender_balance[c] = Num(1, 2)
                /\ amount_xdc[c] = Num(9, 1)
                /\ gas_price[c] = Num(25, 10)) => ~Has(log[c], "Insufficient funds!")

\* Balance 100.0, amount 99.99475 at 250 Gwei: the requirement is 100.0
\* exactly, and the call has gone on to build its payload.
C13_Witness ==
    \E c \in Calls :
        /\ pc[c] = "sign"
        /\ sender_balance[c] = Num(1, 2)
        /\ amount_xdc[c] = Num(9999475, -5)
        /\ gas_price[c] = Num(25, 10)
        /\ total_required[c] = sender_balance[c]
        /\ InUnits(sender_balance[c]) = InUnits(amount_xdc[c]) + FeeInUnits(c)

\* The request of call c has a negative amount.
NegativeAmount(c) == amount_xdc[c] # NoneValue /\ amount_xdc[c].c < 0

\* C20: a call whose amount is negative never signs and never broadcasts: it
\* builds no payload and returns None.
C20_NegativeAmountNeverSigned ==
    \A c \in Calls :
        NegativeAmount(c) =>
            /\ SignCount(c) = 0
            /\ BroadcastCount(c) = 0
            /\ tx[c] = NoneValue
            /\ signed_tx[c] = NoneValue
            /\ tx_hash[c] = <<>>
            /\ pc[c] = "done" => result[c] = None

\* Amount -10.0 with balance 100.0: the preflight let the request through,
\* and the conversion of the amount raised before any signing.
C20_Witness ==
    \E c \in Calls :
        /\ pc[c] = "done"
        /\ amount_xdc[c] = Num(-1, 1)
        /\ sender_balance[c] = Num(1, 2)
        /\ Has(steps[c], "compare")
        /\ ~Has(log[c], "Insufficient funds!")
        /\ Has(log[c], "Error sending transaction: " \o ToWeiValueError.text)
        /\ SignCount(c) = 0

\* Call c obtains its quote from the advisor in this step.
QuoteStep(c) == pc[c] = "gas_price" /\ pc'[c] = "balance"

\* C15: the quote is never cached: a call that quotes after the network's
\* suggested price has changed since the previous quote gets max(n, floor)
\* for the price n the network suggests now, its preflight counts the fee at
\* that price, and its payload carries it.
C15_QuoteReadInEachCall ==
    /\ [][\A c \in Calls :
             (QuoteStep(c) /\ lastQuote # NoneValue /\ lastQuote.changed) =>
                 /\ Gwei(gas_price'[c]) = MaxOf(Gwei(netGasPrice), MIN_GAS_PRICE_GWEI)
                 /\ Gwei(lastQuote.price) # MaxOf(Gwei(netGasPrice), MIN_GAS_PRICE_GWEI)
                       => gas_price'[c] # lastQuote.price
                 /\ InUnits(gas_cost_xdc'[c]) = (21000 * Gwei(gas_price'[c])) \div 10000]_vars
    /\ [](\A c \in Calls :
             /\ total_required[c] # NoneValue =>
                   total_required[c] = NumAdd(amount_xdc[c], gas_cost_xdc[c])
             /\ tx[c] # NoneValue => tx[c].gasPrice = gas_price[c])

\* The previous call was quoted another price; this call, for 90 tXDC, was
\* quoted the 300 Gwei the network suggests now, counted 90.0063 tXDC in its
\* preflight and built its payload at 300 Gwei.
C15_Witness ==
    \E c \in Calls :
        /\ lastQuote # NoneValue
        /\ lastQuote.moved
        /\ netGasPrice = Num(3, 11)
        /\ gas_price[c] = Num(3, 11)
        /\ amount_xdc[c] = Num(9, 1)
        /\ total_required[c] = Num(900063, -4)
        /\ tx[c] # NoneValue
        /\ tx[c].gasPrice = Num(3, 11)

Connected == w3 # Unset

\* C17: when the endpoint is unreachable or reports not connected, or the
\* connection attempt raises, connect_to_xdc_testnet returns None: no
\* exception leaves it, and its last line names the failure.
C17_ConnectFailureReturnsNone ==
    Connected =>
        /\ w3 # Raised
        /\ endpoint # "up" =>
              /\ w3 = NoneValue
              /\ connect_log[Len(connect_log)] \in
                    {"Connection failed. Web3 instance is not connected.",
                     "Error connecting to XDC network"}

\* The chain id request raised after is_connected() was True: None.
C17_Witness ==
    /\ endpoint = "chain_id_raises"
    /\ w3 = NoneValue
    /\ connect_log = <<"Connected to XDC Apothem Testnet", "Error connecting to XDC network">>

\* C18: once connect_to_xdc_testnet returned None the application stops: no
\* call of send_xdc_transaction is ever under way with a handle that is None
\* (or with none at all).
C18_NoCallWithoutHandle ==
    \A c \in Calls :
        /\ pc[c] # "idle" => w3 = Web3(XDC_TESTNET_RPC_URL)
        /\ w3 = NoneValue => pc[c] = "idle" /\ steps[c] = <<>> /\ log[c] = <<>>

\* The endpoint reported not connected: the application holds None and no
\* call is under way.
C18_Witness ==
    /\ endpoint = "not_connected"
    /\ w3 = NoneValue
    /\ \A c \in Calls : pc[c] = "idle"

\* C19: a chain id other than 51 does not block use: whenever the endpoint
\* is up, connect_to_xdc_testnet returns a handle whatever the chain id, the
\* application goes on with it, and the mismatch gives a warning line only.
C19_OtherChainOnlyWarns ==
    (Connected /\ endpoint = "up") =>
        /\ w3 = Web3(XDC_TESTNET_RPC_URL)
        /\ ~AppStops(w3)
        /\ Has(connect_log, "WARNING: Unexpected Chain ID!") <=> chain_id # 51

\* Chain id 50: the warning was printed, and a call made with the handle
\* has broadcast its payload, which carries chain id 50.
C19_Witness ==
    \E c \in Calls :
        /\ chain_id = 50
        /\ w3 = Web3(XDC_TESTNET_RPC_URL)
        /\ Has(connect_log, "WARNING: Unexpected Chain ID!")
        /\ BroadcastCount(c) = 1
        /\ tx_hash[c] # <<>>
        /\ signed_tx[c].tx.chainId = 50

\* Call c has read the sender's count and has not broadcast yet.
HoldsNonce(c) == nonce[c] # -1 /\ BroadcastCount(c) = 0 /\ pc[c] # "done"

\* C14: for calls of one sender in concurrent contexts nothing keeps two
\* calls from using one nonce: the read of the count is never held back while
\* another call holds the count it read (no lock), the payload carries the
\* count the call read itself (no second read), and a call that is ready to
\* broadcast can do so though the other call has broadcast a payload with
\* the same nonce.
C14_NothingPreventsSharedNonce ==
    \A c \in Calls : \A d \in Calls \ {c} :
        /\ (pc[c] = "nonce" /\ HoldsNonce(d)) => ENABLED ReadNonce(c)
        /\ tx[c] # NoneValue => tx[c].nonce = nonce[c]
        /\ (/\ pc[c] = "send"
            /\ BroadcastCount(d) = 1
            /\ tx_hash[d] # <<>>
            /\ signed_tx[d].tx.nonce = signed_tx[c].tx.nonce) => ENABLED Broadcast(c)

\* Both calls have broadcast, each a payload with nonce 0, and each got a
\* hash from the node.
C14_Witness ==
    /\ \A c \in Calls :
          /\ pc[c] = "wait"
          /\ BroadcastCount(c) = 1
          /\ tx_hash[c] # <<>>
          /\ signed_tx[c].tx.nonce = 0
    /\ signed_tx[1].tx.nonce = signed_tx[2].tx.nonce
    /\ signed_tx[1].tx.gasPrice # signed_tx[2].tx.gasPrice

\* ------------------------------------------------------------------------
\* The dashboard's agents
\* ------------------------------------------------------------------------

\* The transfer side at rest, with one network state picked: the agents of
\* the dashboard do not depend on it.
XdcQuiet ==
    /\ XdcInit
    /\ netGasPrice = Num(25, 10)
    /\ chain_id = 51
    /\ endpoint = "up"

\* The variables of the transfer side.
xdc == <<pc, args, locals, result, log, steps, node, app, lastQuote>>

MinOf(a, b) == IF a <= b THEN a ELSE b

\* Impact assessor -------------------------------------------------------

\* Rows of RWA data around the thresholds of assess_impact.
Co2Reductions == {1000, 1001, 10000, 10001}
EnergiesGenerated == {1000000, 1000001, 5000001}
JobsCreated == {10, 11, 51}
WaterSavings == {0, 100001, 1000001}
CertificationLevels == {"Gold", "Silver", "nan"}
ProjectDescriptions == {"Developing a 5MW solar farm in a semi-arid region.",
                        "Water recycling plant"}
LoanAmounts == {500000, 500001}

\* loan_term_years as the app passes it, loan_term_months / 12, held in
\* twelfths of a year: 60 is 5.0 years.
LoanTerms == {60, 61}

\* 'water' in project_description.lower()
MentionsWater(project_description) == project_description = "Water recycling plant"

\* The sum of the points of lines 58-89, before it is capped.
ImpactPoints(rwa_data, loan_amount, loan_term_years) ==
    (IF rwa_data.estimated_co2_reduction_tons_per_year > 10000 THEN 30
     ELSE IF rwa_data.estimated_co2_reduction_tons_per_year > 1000 THEN 15 ELSE 0)
    + (IF rwa_data.estimated_energy_generated_kwh_per_year > 5000000 THEN 25
       ELSE IF rwa_data.estimated_energy_generated_kwh_per_year > 1000000 THEN 10 ELSE 0)
    + (IF rwa_data.estimated_jobs_created > 50 THEN 20
       ELSE IF rwa_data.estimated_jobs_created > 10 THEN 10 ELSE 0)
    + (IF rwa_data.estimated_water_savings_liters_per_year > 1000000 THEN 15
       ELSE IF rwa_data.estimated_water_savings_liters_per_year > 100000 THEN 5 ELSE 0)
    + (IF rwa_data.certification_level = "Gold" THEN 10
       ELSE IF rwa_data.certification_level = "Silver" THEN 5 ELSE 0)
    + (IF loan_amount > 500000 THEN 5 ELSE 0)
    - (IF loan_term_years > 60 THEN 5 ELSE 0)

\* The feedback notes of lines 62-85, in order.
FeedbackNotes(project_description, rwa_data) ==
    (IF rwa_data.estimated_co2_reduction_tons_per_year > 1000 THEN <<>>
        ELSE <<"Consider projects with higher CO2 reduction potential.">>)
    \o (IF rwa_data.estimated_energy_generated_kwh_per_year > 1000000 THEN <<>>
           ELSE <<"Seek RWAs with greater renewable energy generation capacity.">>)
    \o (IF rwa_data.estimated_jobs_created > 10 THEN <<>>
           ELSE <<"Encourage projects that create more local employment opportunities.">>)
    \o (IF /\ rwa_data.estimated_water_savings_liters_per_year = 0
            /\ MentionsWater(project_description)
           THEN <<"Project description mentions water, but no water savings estimated.">>
           ELSE <<>>)
    \o (IF rwa_data.certification_level \in {"Gold", "Silver"} THEN <<>>
           ELSE <<"Recommend seeking higher environmental certifications for stronger impact.">>)

\* A faulty cap: the sum as it is.
Uncapped(score) == score

\* round(min(max(impact_score, 0), 100), 2), of an integer sum.
Capped(score) == MinOf(MaxOf(score, 0), 100)

\* impact_category of lines 93-97.
ImpactCategory(impact_score) ==
    IF impact_score >= 70 THEN "High"
    ELSE IF impact_score >= 40 THEN "Medium"
    ELSE "Low"

\* ImpactAssessorAgent.assess_impact (the report text, a fixed template, is
\* left out).
assess_impact(project_description, rwa_data, loan_amount, loan_term_years) ==
    [impact_score |-> Capped(ImpactPoints(rwa_data, loan_amount, loan_term_years)),
     impact_category |->
        ImpactCategory(Capped(ImpactPoints(rwa_data, loan_amount, loan_term_years))),
     feedback_notes |-> FeedbackNotes(project_description, rwa_data)]

InitImpact ==
    /\ XdcQuiet
    /\ AkkaIdle /\ StorxIdle /\ SessionIdle /\ OracleIdle
    /\ impact_results = NoneValue
    /\ impact_args \in
          [project_description : ProjectDescriptions,
           rwa_data : [estimated_co2_reduction_tons_per_year : Co2Reductions,
                       estimated_energy_generated_kwh_per_year : EnergiesGenerated,
                       estimated_jobs_created : JobsCreated,
                       estimated_water_savings_liters_per_year : WaterSavings,
                       certification_level : CertificationLevels],
           loan_amount : LoanAmounts,
           loan_term_years : LoanTerms]

\* impact_results = impact_assessor.assess_impact(...)
AssessImpact ==
    /\ impact_results = NoneValue
    /\ impact_results' = assess_impact(impact_args.project_description, impact_args.rwa_data,
                                        impact_args.loan_amount, impact_args.loan_term_years)
    /\ UNCHANGED <<xdc, impact_args, akka, storx, session, oracle>>

SpecImpact == InitImpact /\ [][AssessImpact]_vars

\* C21: for every input, the impact_score assess_impact returns lies in
\* [0, 100], the sum of the points (which reaches 105 and -5) being capped,
\* and impact_category is High exactly when the score is >= 70, Medium
\* exactly when 40 <= score < 70, and Low otherwise.
C21_ScoreCappedCategoryByThreshold ==
    impact_results # NoneValue =>
        /\ impact_results.impact_score \in 0..100
        /\ impact_results.impact_category = "High" <=> impact_results.impact_score >= 70
        /\ impact_results.impact_category = "Medium" <=>
              (impact_results.impact_score >= 40 /\ impact_results.impact_score < 70)
        /\ impact_results.impact_category = "Low" <=> impact_results.impact_score < 40
        /\ impact_results.impact_category \in {"High", "Medium", "Low"}

\* Every metric in its top band, Gold, a loan above 500000 over five years:
\* the points sum to 105 and the score returned is 100, High.
C21_Witness ==
    /\ impact_results # NoneValue
    /\ ImpactPoints(impact_args.rwa_data, impact_args.loan_amount,
                    impact_args.loan_term_years) = 105
    /\ impact_results.impact_score = 100
    /\ impact_results.impact_category = "High"

\* ---------------------------------------------------------------------
\* The AKKA liquidity agent (agents/akka_liquidity_agent.py) and the
\* dashboard's two AKKA buttons.  Percentages and amounts are decimal
\* records [c, e]; a random draw is a choice from a small set of the
\* interval the code draws from.

\* {}: a dict without keys.
EmptyDict == [k \in {} |-> NoneValue]

NumProduct(a, b) == Norm(Num(a.c * b.c, a.e + b.e))

\* The widgets: amount (1.0 .. 1000000.0), output asset, risk tolerance (1 .. 5).
AkkaForms ==
    [amount_to_trade_rwa : {Num(1, 0), Num(1, 2)},
     preferred_output_asset : {"XDC", "tUSDT"},
     max_risk_tolerance : 1..5]

\* What optimize_liquidity_route draws: random.choice, random.randint and
\* random.uniform, each from its interval.
RouteDraws ==
    [pool : {"X", "Z"},
     dex : {"XDC Swap"},
     depth : {5000000},
     fees : {Num(1, -1)},
     risk : {Num(7, -1)},
     slippage : {Num(1, -1)},
     gas : {Num(1, -5)}]

\* What simulate_execute_trade draws: random.uniform(0.995, 1.005) and the
\* digest of random.getrandbits(256).
TradeDraws ==
    [variance : {Num(995, -3), Num(1, 0), Num(1005, -3)},
     tx_hash : {"0x9f86d081", "0x2c26b46b"}]

\* if float(max_risk_tolerance) < 2
RiskThreshold == 2

optimize_liquidity_route(rwa_token_address, amount_rwa, preferred_output_asset, max_risk_tolerance, draw) ==
    IF max_risk_tolerance < RiskThreshold
    THEN [route_found |-> FALSE,
          optimization_details |-> EmptyDict,
          simulated_slippage_percent |-> Zero,
          simulated_gas_cost_xdc |-> Zero,
          error_message |-> "No suitable liquidity route found with the given risk tolerance."]
    ELSE [route_found |-> TRUE,
          optimization_details |->
              [selected_pool |-> "AKKA-USDC Liquidity Pool " \o draw.pool,
               via_dex |-> draw.dex,
               liquidity_depth |-> draw.depth,
               estimated_fees_percent |-> draw.fees,
               risk_score |-> NumTimes(max_risk_tolerance, draw.risk)],
          simulated_slippage_percent |-> draw.slippage,
          simulated_gas_cost_xdc |-> draw.gas]

\* x / 100
Hundredth(x) == Norm(Num(x.c, x.e - 2))

\* 1 - x
OneMinus(x) == NumAdd(Num(1, 0), Negated(x))

\* amount_rwa_float * (1 - fees_decimal) * (1 - slippage_decimal) * random.uniform(0.995, 1.005)
simulated_amount_received(optimized_route_details, amount_rwa, draw) ==
    NumProduct(NumProduct(NumProduct(amount_rwa,
        OneMinus(Hundredth(optimized_route_details.optimization_details.estimated_fees_percent))),
        OneMinus(Hundredth(optimized_route_details.simulated_slippage_percent))),
        draw.variance)

\* optimized_route_details['optimization_details']['estimated_fees_percent'] and
\* optimized_route_details['simulated_slippage_percent'] raise no KeyError.
HasTradeKeys(optimized_route_details) ==
    /\ "optimization_details" \in DOMAIN optimized_route_details
    /\ "estimated_fees_percent" \in DOMAIN optimized_route_details.optimization_details
    /\ "simulated_slippage_percent" \in DOMAIN optimized_route_details

\* optimized_route_details.get("route_found")
RouteFound(optimized_route_details) ==
    /\ "route_found" \in DOMAIN optimized_route_details
    /\ optimized_route_details.route_found

\* output_amount_received is bound to 0 before the branch and not bound
\* again: the amount computed in the branch stays in its own local.
simulate_execute_trade(optimized_route_details, amount_rwa, preferred_output_asset, draw) ==
    IF RouteFound(optimized_route_details) /\ HasTradeKeys(optimized_route_details)
    THEN [trade_executed |-> TRUE,
          simulated_tx_hash |-> draw.tx_hash,
          output_amount_received |-> Zero,
          output_asset |-> preferred_output_asset]
    ELSE [trade_executed |-> FALSE,
          simulated_tx_hash |-> None,
          output_amount_received |-> Zero,
          output_asset |-> preferred_output_asset]

RWA_TOKEN_MOCK_ADDRESS == "0xFakeRWAContractAddress1234567890abcdef1234567890abcdef"

\* The session keeps the last result, route or not.
StoredWithoutReset(results) == results

\* st.session_state["akka_optimization_results"] after the optimize button:
\* the result when a route was found, None when not.
StoredOptimization(results) == IF results.route_found THEN results ELSE NoneValue

\* if st.button("Optimize Liquidity Route via AKKA Agent")
AkkaOptimize ==
    \E form \in AkkaForms, draw \in RouteDraws :
        LET results == optimize_liquidity_route(RWA_TOKEN_MOCK_ADDRESS, form.amount_to_trade_rwa,
                           form.preferred_output_asset, form.max_risk_tolerance, draw)
        IN /\ akka_form' = form
           /\ optimization_results' = results
           /\ akka_optimization_results' = StoredOptimization(results)
           /\ akka_trade_rwa_amount' =
                 IF results.route_found THEN form.amount_to_trade_rwa ELSE akka_trade_rwa_amount
           /\ akka_trade_output_asset' =
                 IF results.route_found THEN form.preferred_output_asset
                 ELSE akka_trade_output_asset
           /\ UNCHANGED <<xdc, impact, storx, session, oracle, trade_args, trade_execution_results>>

\* The execute button is drawn: the session holds a result and its
\* route_found is true.
ExecuteOffered ==
    /\ akka_optimization_results # NoneValue
    /\ akka_optimization_results.route_found

\* if st.button("Simulate Trade Execution")
AkkaExecute ==
    /\ ExecuteOffered
    /\ \E draw \in TradeDraws :
          /\ trade_args' = [optimized_route_details |-> akka_optimization_results,
                            amount_rwa |-> akka_trade_rwa_amount,
                            preferred_output_asset |-> akka_trade_output_asset,
                            draw |-> draw]
          /\ trade_execution_results' =
                simulate_execute_trade(akka_optimization_results, akka_trade_rwa_amount,
                                       akka_trade_output_asset, draw)
    /\ UNCHANGED <<xdc, impact, storx, session, oracle,
                   akka_form, optimization_results, akka_optimization_results,
                   akka_trade_rwa_amount, akka_trade_output_asset>>

\* simulate_execute_trade called on the result of the last optimization,
\* whatever it is, by a caller other than the dashboard.
TradeOnLastResult ==
    /\ optimization_results # NoneValue
    /\ \E draw \in TradeDraws :
          /\ trade_args' = [optimized_route_details |-> optimization_results,
                            amount_rwa |-> akka_form.amount_to_trade_rwa,
                            preferred_output_asset |-> akka_form.preferred_output_asset,
                            draw |-> draw]
          /\ trade_execution_results' =
                simulate_execute_trade(optimization_results, akka_form.amount_to_trade_rwa,
                                       akka_form.preferred_output_asset, draw)
    /\ UNCHANGED <<xdc, impact, storx, session, oracle,
                   akka_form, optimization_results, akka_optimization_results,
                   akka_trade_rwa_amount, akka_trade_output_asset>>

InitAkka ==
    /\ XdcQuiet
    /\ DashboardIdle

NextAkka == AkkaOptimize \/ AkkaExecute \/ TradeOnLastResult

SpecAkka == InitAkka /\ [][NextAkka]_vars

\* ---------------------------------------------------------------------
\* The StorX agent (agents/storx_agent.py).  The storage service is the
\* environment: storx_env holds the four secrets and the answer of each
\* call the constructor can make; the answer to an upload is drawn at the
\* upload.

MaxUploads == 2

\* st.secrets.get("storx", {}).get(...): a value, None when the key is
\* absent, "" when it is left empty.
StorxSecrets ==
    [access_key_id : {"jx4key", None},
     secret_access_key : {"jx4secret", None},
     endpoint_url : {"https://gateway.storx.io", None},
     bucket_name : {"green-loans", ""}]

\* boto3.client returns or raises; head_bucket returns, raises ClientError
\* with code '404' or '403', or raises another exception; create_bucket
\* returns or raises.
StorxAnswers ==
    [client : {"ok", "raises"},
     head_bucket : {"ok", "404", "403", "raises"},
     create_bucket : {"ok", "raises"}]

\* upload_fileobj returns, raises ClientError, or raises another exception.
UploadAnswers ==
    {[raises |-> "nothing"],
     [raises |-> "ClientError", code |-> "AccessDenied", message |-> "Access Denied."],
     [raises |-> "Exception", message |-> "Could not connect to the endpoint URL"]}

ObjectKeys == {"loan_proposals/LOAN-0001_20250101120000.md"}

\* Python's truth value of a secret.
Truthy(v) == v # None /\ v # ""

\* all([access_key_id, secret_access_key, endpoint_url, bucket_name])
AllOf(secrets) ==
    /\ Truthy(secrets.access_key_id) /\ Truthy(secrets.secret_access_key)
    /\ Truthy(secrets.endpoint_url) /\ Truthy(secrets.bucket_name)

\* The calls the constructor makes, in order, up to the one that raises.
ConstructorCalls(secrets, answers) ==
    IF ~AllOf(secrets) THEN <<>>
    ELSE IF answers.client = "raises" THEN <<"boto3.client">>
    ELSE IF answers.head_bucket = "404" THEN <<"boto3.client", "head_bucket", "create_bucket">>
    ELSE <<"boto3.client", "head_bucket">>

\* Whether the constructor reaches self.is_real_integration_possible = True.
BucketReady(answers) ==
    /\ answers.client = "ok"
    /\ \/ answers.head_bucket = "ok"
       \/ answers.head_bucket = "404" /\ answers.create_bucket = "ok"

\* StorXAgent.__init__
StorXAgent(access_key_id, secret_access_key, endpoint_url, bucket_name, answers) ==
    LET secrets == [access_key_id |-> access_key_id, secret_access_key |-> secret_access_key,
                    endpoint_url |-> endpoint_url, bucket_name |-> bucket_name]
    IN [access_key_id |-> access_key_id,
        secret_access_key |-> secret_access_key,
        endpoint_url |-> endpoint_url,
        bucket_name |-> bucket_name,
        is_real_integration_possible |-> AllOf(secrets) /\ BucketReady(answers),
        s3_client |-> IF AllOf(secrets) /\ answers.client = "ok" THEN "s3" ELSE None]

\* upload_document without its last except clause.
UploadNotCatchingAll(obj, object_key, answer) ==
    IF ~obj.is_real_integration_possible
    THEN [success |-> TRUE,
          url |-> "https://simulated.storx.link/" \o obj.bucket_name \o "/" \o object_key]
    ELSE CASE answer.raises = "nothing" ->
                [success |-> TRUE,
                 url |-> obj.endpoint_url \o "/" \o obj.bucket_name \o "/" \o object_key]
           [] answer.raises = "ClientError" ->
                [success |-> FALSE,
                 error |-> "StorX Client Error: " \o answer.code \o " - " \o answer.message]
           [] OTHER -> Raised

\* StorXAgent.upload_document: the dict returned.
upload_document(obj, object_key, answer) ==
    IF ~obj.is_real_integration_possible
    THEN [success |-> TRUE,
          url |-> "https://simulated.storx.link/" \o obj.bucket_name \o "/" \o object_key]
    ELSE CASE answer.raises = "nothing" ->
                [success |-> TRUE,
                 url |-> obj.endpoint_url \o "/" \o obj.bucket_name \o "/" \o object_key]
           [] answer.raises = "ClientError" ->
                [success |-> FALSE,
                 error |-> "StorX Client Error: " \o answer.code \o " - " \o answer.message]
           [] OTHER ->
                [success |-> FALSE, error |-> "Unexpected error: " \o answer.message]

\* The storage-client calls upload_document makes.
UploadCalls(obj) == IF obj.is_real_integration_possible THEN <<"upload_fileobj">> ELSE <<>>

\* storx_agent = StorXAgent(...) when the application starts
ConstructStorx ==
    /\ storx_agent = NoneValue
    /\ storx_agent' = StorXAgent(storx_env.secrets.access_key_id,
                                 storx_env.secrets.secret_access_key,
                                 storx_env.secrets.endpoint_url,
                                 storx_env.secrets.bucket_name, storx_env.answers)
    /\ s3_calls' = s3_calls \o ConstructorCalls(storx_env.secrets, storx_env.answers)
    /\ press' = [button |-> "start", uploads |-> 0]
    /\ UNCHANGED <<xdc, impact, akka, oracle, storx_env, upload_result,
                   submitted_loans, latest_loan_for_storx, current_monitoring_month>>

\* storx_agent.upload_document(document_content.encode('utf-8'), object_key)
UploadDocument ==
    /\ storx_agent # NoneValue
    /\ press.uploads < MaxUploads
    /\ \E object_key \in ObjectKeys, answer \in UploadAnswers :
          /\ upload_result' = upload_document(storx_agent, object_key, answer)
          /\ s3_calls' = s3_calls \o UploadCalls(storx_agent)
          /\ press' = [button |-> "storx_upload", object_key |-> object_key,
                       answer |-> answer, calls_before |-> s3_calls,
                       uploads |-> press.uploads + 1]
    /\ UNCHANGED <<xdc, impact, akka, oracle, storx_env, storx_agent,
                   submitted_loans, latest_loan_for_storx, current_monitoring_month>>

InitStorx ==
    /\ XdcQuiet
    /\ ImpactIdle /\ AkkaIdle /\ SessionIdle /\ OracleIdle
    /\ storx_env \in [secrets : StorxSecrets, answers : StorxAnswers]
    /\ storx_agent = NoneValue
    /\ s3_calls = <<>>
    /\ upload_result = NoneValue

NextStorx == ConstructStorx \/ UploadDocument

SpecStorx == InitStorx /\ [][NextStorx]_vars

\* ---------------------------------------------------------------------
\* The oracle monitor (agents/oracle_monitor.py).  random.random() is a
\* number of thousandths in [0, 1); the floats are decimal records.

MaxMonth == 3

\* The draws of one fetch: three random.random(), one random.randint(-1, 1),
\* the clock, and whether a statement of the try block raised.
OracleDraws ==
    [co2 : {0, 999}, energy : {0, 500, 999}, jobs : {-1, 1}, water : {0},
     now : {"2025-01-01 12:00:00"}, raised : BOOLEAN]

\* rwa_id and current_month, from the first month to far beyond a loan's term.
OracleInputs == [rwa_id : {"RWA001", "RWA002"}, current_month : {0, 1, 7, 120, 1000000}]

\* base * (1 + (current_month * rate))
GrowingBase(base, current_month, rate) ==
    NumProduct(base, NumAdd(Num(1, 0), NumTimes(current_month, rate)))

\* floor + (random.random() * width)
Factor(floor, r, width) == NumAdd(floor, NumProduct(Num(r, -3), width))

\* An energy factor of 70% to 100% of expected.
EnergyFactorFromSeventy(r) == Factor(Num(7, -1), r, Num(3, -1))

\* energy_factor = 0.85 + (random.random() * 0.3)
energy_factor(r) == Factor(Num(85, -2), r, Num(3, -1))

\* OracleMonitorAgent.fetch_simulated_rwa_data
fetch_simulated_rwa_data(rwa_id, current_month, draw) ==
    LET co2_factor == Factor(Num(9, -1), draw.co2, Num(2, -1))
        water_factor == Factor(Num(9, -1), draw.water, Num(2, -1))
        base_co2 == GrowingBase(Num(5, 3), current_month, Num(5, -3))
        base_energy == GrowingBase(Num(1, 6), current_month, Num(3, -3))
        base_jobs == 10
        base_water == GrowingBase(Num(5, 5), current_month, Num(2, -3))
        co2_reduction == NumProduct(base_co2, co2_factor)
        energy_generated == NumProduct(base_energy, energy_factor(draw.energy))
        status1 == IF NumLess(co2_reduction, NumProduct(base_co2, Num(8, -1)))
                   THEN "Underperforming CO2" ELSE "On Track"
        status == IF NumLess(energy_generated, NumProduct(base_energy, Num(8, -1)))
                  THEN "Underperforming Energy" ELSE status1
    IN IF draw.raised
       THEN [success |-> FALSE, error |-> "str(e)"]
       ELSE [success |-> TRUE,
             co2_reduction_tons |-> co2_reduction,
             energy_generated_kwh |-> energy_generated,
             jobs_created |-> MaxOf(0, base_jobs + draw.jobs),
             water_savings_liters |-> NumProduct(base_water, water_factor),
             status_update |-> status,
             timestamp |-> draw.now]

InitOracle ==
    /\ XdcQuiet
    /\ ImpactIdle /\ AkkaIdle /\ StorxIdle /\ SessionIdle
    /\ \E input \in OracleInputs, draw \in OracleDraws :
          oracle_args = [rwa_id |-> input.rwa_id, current_month |-> input.current_month,
                         draw |-> draw]
    /\ oracle_data = NoneValue

\* oracle_monitor_agent.fetch_simulated_rwa_data(rwa_id, current_month)
FetchData ==
    /\ oracle_data = NoneValue
    /\ oracle_data' = fetch_simulated_rwa_data(oracle_args.rwa_id, oracle_args.current_month,
                                               oracle_args.draw)
    /\ UNCHANGED <<xdc, impact, akka, storx, session, oracle_args>>

SpecOracle == InitOracle /\ [][FetchData]_vars

\* ---------------------------------------------------------------------
\* The session of the dashboard (app.py): the loans submitted, the loan
\* the StorX, tokenization and vote buttons work on, and the month counter
\* of the oracle.  A loan entry is a dict object: latest_loan_for_storx
\* holds a reference to the object appended to submitted_loans, written
\* [ref |-> k] for the k-th object created.  press records the button
\* pressed last and the session state it found.

MaxLoans == 3

\* The form's selections.
LoanForms == [borrower_id : {"BRW001"}, rwa_id : {"RWA001", "RWA002"}]

\* send_xdc_transaction returned a hash, returned None, or raised.
TransferOutcomes == {[tx_hash |-> "0x9f86d081"], NoneValue, Raised}

\* rwa_properties_df[rwa_properties_df["rwa_id"] == rwa_id].iloc[0]
RwaData(rwa_id) ==
    IF rwa_id = "RWA001"
    THEN [estimated_co2_reduction_tons_per_year |-> 10001,
          estimated_energy_generated_kwh_per_year |-> 5000001,
          estimated_jobs_created |-> 51,
          estimated_water_savings_liters_per_year |-> 0,
          certification_level |-> "Gold"]
    ELSE [estimated_co2_reduction_tons_per_year |-> 1000,
          estimated_energy_generated_kwh_per_year |-> 1000000,
          estimated_jobs_created |-> 10,
          estimated_water_savings_liters_per_year |-> 100001,
          certification_level |-> "nan"]

\* The number without padding.
FormatD(n) == <<"0", "1", "2", "3", "4", "5", "6", "7", "8", "9">>[(n % 10) + 1]

\* f"{n:04d}" for 0 <= n < 10000: four decimal digits, zeros in front.
Format04d(n) ==
    LET digit == <<"0", "1", "2", "3", "4", "5", "6", "7", "8", "9">>
    IN digit[((n \div 1000) % 10) + 1] \o digit[((n \div 100) % 10) + 1]
           \o digit[((n \div 10) % 10) + 1] \o digit[(n % 10) + 1]

\* new_loan_entry, with the fields the dashboard reads again.
new_loan_entry(form, loans, impact_results_) ==
    [loan_id |-> "LOAN-" \o Format04d(Len(loans) + 1),
     borrower_id |-> form.borrower_id,
     rwa_id |-> form.rwa_id,
     impact_category |-> impact_results_.impact_category,
     impact_score |-> impact_results_.impact_score,
     status |-> "Proposed",
     expected_co2 |-> RwaData(form.rwa_id).estimated_co2_reduction_tons_per_year]

\* The entry is recorded only for a transfer that returned a hash.
LoansAfterTransfer(loans, entry, outcome) ==
    IF outcome \notin {NoneValue, Raised} THEN Append(loans, entry) ELSE loans

\* st.session_state.submitted_loans.append(new_loan_entry)
LoansAfterSubmit(loans, entry, outcome) == Append(loans, entry)

\* The reference stays on the first loan.
FirstRef(loans) == [ref |-> 1]

\* st.session_state.latest_loan_for_storx = new_loan_entry: the object just
\* appended.
LatestRef(loans) == [ref |-> Len(loans)]

\* latest_loan = st.session_state.latest_loan_for_storx
LatestLoan == submitted_loans[latest_loan_for_storx.ref]

\* The counter starts over.
MonthReset(month) == 1

\* st.session_state.current_monitoring_month += 1
NextMonth(month) == month + 1

\* The status written on every entry.
WithStatusOnAll(loans, monitor_loan_id, status_update) ==
    [i \in DOMAIN loans |-> [loans[i] EXCEPT !.status = "Monitoring (" \o status_update \o ")"]]

\* idx = df[df["loan_id"] == monitor_loan_id].index[0]
\* st.session_state.submitted_loans[idx]["status"] = f"Monitoring ({status_update})"
WithStatus(loans, monitor_loan_id, status_update) ==
    LET idx == CHOOSE i \in DOMAIN loans :
                   /\ loans[i].loan_id = monitor_loan_id
                   /\ \A j \in DOMAIN loans : loans[j].loan_id = monitor_loan_id => i <= j
    IN [loans EXCEPT ![idx].status = "Monitoring (" \o status_update \o ")"]

\* What every press records of the session it found.
Found(button, target) ==
    [button |-> button, target |-> target, loans_before |-> submitted_loans,
     latest_before |-> latest_loan_for_storx, month_before |-> current_monitoring_month]

\* if submit_button: the handler up to st.success("... submitted successfully!")
AssessPress ==
    /\ Len(submitted_loans) < MaxLoans
    /\ \E form \in LoanForms, outcome \in TransferOutcomes :
          LET results == assess_impact("Developing a 5MW solar farm in a semi-arid region.",
                                       RwaData(form.rwa_id), 500001, 36)
              entry == new_loan_entry(form, submitted_loans, results)
              loans == LoansAfterSubmit(submitted_loans, entry, outcome)
          IN /\ impact_args' = [project_description |->
                                    "Developing a 5MW solar farm in a semi-arid region.",
                                rwa_data |-> RwaData(form.rwa_id),
                                loan_amount |-> 500001, loan_term_years |-> 36]
             /\ impact_results' = results
             /\ submitted_loans' = loans
             /\ latest_loan_for_storx' = LatestRef(loans)
             /\ press' = Found("assess", entry.loan_id)
                            @@ [transfer |-> outcome,
                                tx_hash |-> IF outcome = Raised THEN "N/A"
                                            ELSE IF outcome = NoneValue THEN None
                                            ELSE outcome.tx_hash,
                                notices |->
                                    <<IF outcome = Raised \/ outcome = NoneValue
                                      THEN "Loan blockchain transaction failed"
                                      ELSE "Loan proposal recorded on XDC blockchain.",
                                      "Loan proposal submitted successfully!">>]
    /\ UNCHANGED <<xdc, akka, storx, oracle, current_monitoring_month>>

\* if st.button(f"Store Loan Proposal {loan_id_for_storx} on StorX")
StorxPress ==
    /\ latest_loan_for_storx # NoneValue
    /\ \E answer \in UploadAnswers :
          LET object_key == "loan_proposals/" \o LatestLoan.loan_id \o "_20250101120000.md"
              outcome == upload_document(storx_agent, object_key, answer)
          IN /\ upload_result' =
                   IF outcome = Raised
                   THEN [success |-> FALSE, error |-> "Internal app error: "]
                   ELSE outcome
             /\ s3_calls' = s3_calls \o UploadCalls(storx_agent)
             /\ press' = Found("storx_upload", LatestLoan.loan_id)
    /\ UNCHANGED <<xdc, impact, akka, oracle, storx_env, storx_agent,
                   submitted_loans, latest_loan_for_storx, current_monitoring_month>>

\* if st.button(f"Simulate Tokenize RWA for {loan_id_for_storx}")
TokenizePress ==
    /\ latest_loan_for_storx # NoneValue
    /\ press' = Found("tokenize", LatestLoan.loan_id)
    /\ UNCHANGED <<xdc, impact, akka, oracle, storx,
                   submitted_loans, latest_loan_for_storx, current_monitoring_month>>

\* if st.button(f"Simulate DAO Vote for {loan_id_for_storx}")
VotePress ==
    /\ latest_loan_for_storx # NoneValue
    /\ press' = Found("dao_vote", LatestLoan.loan_id)
    /\ UNCHANGED <<xdc, impact, akka, oracle, storx,
                   submitted_loans, latest_loan_for_storx, current_monitoring_month>>

\* if st.button("Fetch Real-time Data (Simulated Oracle)")
FetchPress ==
    /\ submitted_loans # <<>>
    /\ current_monitoring_month < MaxMonth
    /\ \E i \in DOMAIN submitted_loans,
          draw \in {d \in OracleDraws : d.co2 = 0 /\ d.energy = 999 /\ d.jobs = 1} :
          LET monitor_loan_id == submitted_loans[i].loan_id
              month == NextMonth(current_monitoring_month)
              data == fetch_simulated_rwa_data(submitted_loans[i].rwa_id, month, draw)
          IN /\ current_monitoring_month' = month
             /\ oracle_args' = [rwa_id |-> submitted_loans[i].rwa_id,
                                current_month |-> month, draw |-> draw]
             /\ oracle_data' = data
             /\ submitted_loans' =
                   IF data.success
                   THEN WithStatus(submitted_loans, monitor_loan_id, data.status_update)
                   ELSE submitted_loans
             /\ press' = Found("fetch", monitor_loan_id)
    /\ UNCHANGED <<xdc, impact, akka, storx, latest_loan_for_storx>>

\* A new session of an application started without [storx] secrets.
InitSession ==
    /\ XdcQuiet
    /\ ImpactIdle /\ AkkaIdle /\ SessionIdle /\ OracleIdle
    /\ storx_env = [secrets |-> [access_key_id |-> None, secret_access_key |-> None,
                                 endpoint_url |-> None, bucket_name |-> None],
                    answers |-> [client |-> "ok", head_bucket |-> "ok", create_bucket |-> "ok"]]
    /\ storx_agent = StorXAgent(None, None, None, None, storx_env.answers)
    /\ s3_calls = <<>>
    /\ upload_result = NoneValue

NextSession == AssessPress \/ StorxPress \/ TokenizePress \/ VotePress \/ FetchPress

SpecSession == InitSession /\ [][NextSession]_vars

\* C22 as stated: whenever simulate_execute_trade executed a trade, the
\* output_amount_received it returns is the simulated amount after fees and
\* slippage computed from amount_rwa.
C22_OutputIsSimulatedAmount ==
    (trade_execution_results # NoneValue /\ trade_execution_results.trade_executed) =>
        trade_execution_results.output_amount_received =
            simulated_amount_received(trade_args.optimized_route_details,
                                      trade_args.amount_rwa, trade_args.draw)

\* C23: an optimization with max_risk_tolerance < 2 returns route_found
\* false with empty optimization_details, the dashboard then holds no stored
\* optimization result and does not offer the trade, and a
\* simulate_execute_trade handed a result whose route_found is false returns
\* trade_executed false with no transaction hash.
C23_NoRouteNoTrade ==
    /\ (optimization_results # NoneValue /\ akka_form.max_risk_tolerance < 2) =>
          /\ ~optimization_results.route_found
          /\ DOMAIN optimization_results.optimization_details = {}
          /\ akka_optimization_results = NoneValue
          /\ ~ExecuteOffered
    /\ (trade_execution_results # NoneValue
            /\ ~RouteFound(trade_args.optimized_route_details)) =>
          /\ ~trade_execution_results.trade_executed
          /\ trade_execution_results.simulated_tx_hash = None

\* A route had been stored; an optimization at tolerance 1 then found none,
\* and the trade function was called on that result.
C23_Witness ==
    /\ optimization_results # NoneValue
    /\ akka_form.max_risk_tolerance = 1
    /\ akka_trade_rwa_amount # NoneValue
    /\ akka_optimization_results = NoneValue
    /\ trade_execution_results # NoneValue
    /\ ~RouteFound(trade_args.optimized_route_details)
    /\ ~trade_execution_results.trade_executed

\* C24: the agent is in real mode only if all four credentials are present
\* and the bucket check, or the creation after a 404, succeeded, and in
\* simulation mode otherwise; in simulation mode upload_document makes no
\* storage-client call and returns success with the simulated URL; in real
\* mode an upload error of either kind comes back as success false with an
\* error message and is never raised.
C24_RealModeOnlyWhenReady ==
    /\ storx_agent # NoneValue =>
          (storx_agent.is_real_integration_possible <=>
              /\ \A k \in {"access_key_id", "secret_access_key", "endpoint_url", "bucket_name"} :
                    storx_env.secrets[k] \notin {None, ""}
              /\ storx_env.answers.client = "ok"
              /\ \/ storx_env.answers.head_bucket = "ok"
                 \/ /\ storx_env.answers.head_bucket = "404"
                    /\ storx_env.answers.create_bucket = "ok")
    /\ (upload_result # NoneValue /\ ~storx_agent.is_real_integration_possible) =>
          /\ s3_calls = press.calls_before
          /\ upload_result.success
          /\ upload_result.url =
                "https://simulated.storx.link/" \o storx_env.secrets.bucket_name
                    \o "/" \o press.object_key
    /\ (upload_result # NoneValue /\ storx_agent.is_real_integration_possible) =>
          /\ upload_result # Raised
          /\ press.answer.raises # "nothing" =>
                /\ ~upload_result.success
                /\ upload_result.error # ""

\* The bucket was missing and got created, so the agent is in real mode,
\* and an upload the service refused came back as a failure dict.
C24_Witness ==
    /\ storx_agent # NoneValue
    /\ storx_agent.is_real_integration_possible
    /\ storx_env.answers.head_bucket = "404"
    /\ upload_result # NoneValue
    /\ press.answer.raises = "ClientError"
    /\ upload_result = [success |-> FALSE,
                        error |-> "StorX Client Error: AccessDenied - Access Denied."]

\* C30: for every rwa_id, every current_month >= 0 and every random draw,
\* the dict fetch_simulated_rwa_data returns has status_update "On Track":
\* the CO2 factor is at least 0.9 and the energy factor at least 0.85, above
\* the 0.8 of the base that the two Underperforming outcomes need.
C30_AlwaysOnTrack ==
    (oracle_data # NoneValue /\ ~oracle_args.draw.raised) =>
        /\ oracle_data.success
        /\ oracle_data.status_update = "On Track"
        /\ ~NumLess(oracle_data.energy_generated_kwh,
                    NumProduct(GrowingBase(Num(1, 6), oracle_args.current_month, Num(3, -3)),
                               Num(85, -2)))
        /\ ~NumLess(oracle_data.co2_reduction_tons,
                    NumProduct(GrowingBase(Num(5, 3), oracle_args.current_month, Num(5, -3)),
                               Num(9, -1)))

\* Both random.random() draws at 0 in a later month: the lowest factors
\* the code can produce, 0.9 and 0.85.
C30_Witness ==
    /\ oracle_data # NoneValue
    /\ oracle_args.current_month > 0
    /\ oracle_args.draw.co2 = 0 /\ oracle_args.draw.energy = 0
    /\ oracle_data.success
    /\ oracle_data.status_update = "On Track"

\* C25: every press of the assess button appends exactly one entry with
\* status "Proposed" to submitted_loans and reports the proposal as
\* submitted, whether send_xdc_transaction returned a hash, returned None
\* or raised.
C25_AssessAlwaysRecordsTheLoan ==
    (press # NoneValue /\ press.button = "assess") =>
        /\ Len(submitted_loans) = Len(press.loans_before) + 1
        /\ SubSeq(submitted_loans, 1, Len(press.loans_before)) = press.loans_before
        /\ submitted_loans[Len(submitted_loans)].status = "Proposed"
        /\ submitted_loans[Len(submitted_loans)].loan_id = press.target
        /\ \E i \in DOMAIN press.notices :
              press.notices[i] = "Loan proposal submitted successfully!"

\* A second loan submitted while the transfer raised.
C25_Witness ==
    /\ press # NoneValue
    /\ press.button = "assess"
    /\ press.transfer = Raised
    /\ press.tx_hash = "N/A"
    /\ Len(press.loans_before) = 1
    /\ Len(submitted_loans) = 2

\* C26: over submissions and oracle fetches submitted_loans only grows, the
\* k-th loan has loan_id LOAN-000k, and no two entries share a loan_id.
C26_LoanIdsCountThePositions ==
    /\ press # NoneValue =>
          /\ Len(submitted_loans) >= Len(press.loans_before)
          /\ \A i \in DOMAIN press.loans_before :
                submitted_loans[i].loan_id = press.loans_before[i].loan_id
    /\ \A k \in DOMAIN submitted_loans :
          submitted_loans[k].loan_id =
              "LOAN-000" \o <<"1", "2", "3", "4", "5", "6", "7", "8", "9">>[k]
    /\ \A i, j \in DOMAIN submitted_loans :
          i # j => submitted_loans[i].loan_id # submitted_loans[j].loan_id

\* Three loans submitted, then an oracle fetch.
C26_Witness ==
    /\ press # NoneValue
    /\ press.button = "fetch"
    /\ Len(submitted_loans) = 3
    /\ submitted_loans[3].loan_id = "LOAN-0003"

\* C27: latest_loan_for_storx is None exactly when submitted_loans is empty
\* and is otherwise the last entry of submitted_loans, so the StorX upload,
\* the tokenization and the DAO vote act on the loan submitted last.
C27_LatestIsTheLastLoan ==
    /\ latest_loan_for_storx = NoneValue <=> submitted_loans = <<>>
    /\ latest_loan_for_storx # NoneValue =>
          /\ latest_loan_for_storx.ref = Len(submitted_loans)
          /\ LatestLoan = submitted_loans[Len(submitted_loans)]
    /\ (press # NoneValue /\ press.button \in {"storx_upload", "tokenize", "dao_vote"}) =>
          press.target = submitted_loans[Len(submitted_loans)].loan_id

\* The vote is taken on the second of two loans after the oracle rewrote
\* its status.
C27_Witness ==
    /\ press # NoneValue
    /\ press.button = "dao_vote"
    /\ Len(submitted_loans) = 2
    /\ press.target = "LOAN-0002"
    /\ LatestLoan.status = "Monitoring (On Track)"

\* C28: current_monitoring_month starts at 0, is one more after every
\* oracle-fetch press and unchanged by every other press, and the month
\* handed to the oracle is this one counter whichever loan is selected.
C28_OneMonthCounter ==
    /\ press = NoneValue => current_monitoring_month = 0
    /\ press # NoneValue =>
          IF press.button = "fetch"
          THEN /\ current_monitoring_month = press.month_before + 1
               /\ oracle_args.current_month = current_monitoring_month
          ELSE current_monitoring_month = press.month_before

\* The first fetch for the second loan is made in month 2, the first loan
\* having been fetched before.
C28_Witness ==
    /\ press # NoneValue
    /\ press.button = "fetch"
    /\ press.target = "LOAN-0002"
    /\ press.loans_before[1].status = "Monitoring (On Track)"
    /\ press.loans_before[2].status = "Proposed"
    /\ oracle_args.current_month = 2

\* C29: a successful oracle fetch changes the status field of the selected
\* loan's entry to "Monitoring (<status_update>)" and nothing else of
\* submitted_loans, and a failed fetch changes no entry.
C29_FetchRewritesOneStatus ==
    (press # NoneValue /\ press.button = "fetch") =>
        /\ Len(submitted_loans) = Len(press.loans_before)
        /\ \A i \in DOMAIN press.loans_before :
              submitted_loans[i] =
                  IF oracle_data.success /\ press.loans_before[i].loan_id = press.target
                  THEN [press.loans_before[i] EXCEPT
                           !.status = "Monitoring (" \o oracle_data.status_update \o ")"]
                  ELSE press.loans_before[i]

\* A successful fetch for the first of two loans.
C29_Witness ==
    /\ press # NoneValue
    /\ press.button = "fetch"
    /\ oracle_data.success
    /\ press.target = "LOAN-0001"
    /\ press.loans_before[1].status = "Proposed"
    /\ submitted_loans[1].status = "Monitoring (On Track)"
    /\ Len(submitted_loans) = 2
    /\ submitted_loans[2].status = "Proposed"

====
